---- MODULE Spec2Model ----
(***************************************************************************)
(* Session index, summary cache and full-text search of the Codex history  *)
(* viewer (findSessionFiles, buildSessionSummary, HistoryService.refresh,  *)
(* readJson/writeJson, runSearchFlow/searchSessions,                       *)
(* promoteSessionCopyToToday).                                             *)
(*                                                                         *)
(* The specifications of the module:                                       *)
(*   Spec       - refresh / cache reconciliation against a changing disk   *)
(*   SpecIndex  - refresh over log files of every kind of first line,      *)
(*                start time and place                                     *)
(*   SpecSearch - one search command with a cancellation token             *)
(*   SpecWalk   - findSessionFiles over directory trees                    *)
(*   SpecApp    - refresh, search and promote commands interleaved         *)
(***************************************************************************)
EXTENDS Integers, Sequences, FiniteSets, TLC

(***************************************************************************)
(* Bounds of the model.                                                    *)
(***************************************************************************)
\* number of changes the outside world makes to disk, settings and config
MaxEnvSteps == 1

\* largest search.maxResults the settings hold
MaxSearchResults == 2

(***************************************************************************)
(* Program constants.                                                      *)
(***************************************************************************)
\* historyService.ts:19
SUMMARY_CACHE_ALGO_VERSION == 3
\* historyService.ts:22 / :129, the literal `version: 4`
CACHE_FORMAT_VERSION == 4

(***************************************************************************)
(* JavaScript strings: sequences of UTF-16 code units.                     *)
(***************************************************************************)
\* "-", "0", ":" and the words the code looks for
Hyphen == <<45>>

\* "rollout-"
RolloutPrefix == <<114, 111, 108, 108, 111, 117, 116, 45>>
\* ".jsonl"
JsonlSuffix == <<46, 106, 115, 111, 110, 108>>

\* Number.prototype.toString of an integer
RECURSIVE digitsOf(_)
digitsOf(n) == IF n < 10 THEN <<48 + n>> ELSE digitsOf(n \div 10) \o <<48 + (n % 10)>>
toString(n) == IF n < 0 THEN Hyphen \o digitsOf(0 - n) ELSE digitsOf(n)

\* dateUtils pad2: n.toString().padStart(2, "0")
pad2(n) == IF Len(toString(n)) < 2 THEN <<48>> \o toString(n) ELSE toString(n)

\* the < of two strings: by code unit, a proper prefix being smaller
RECURSIVE strLess(_, _)
strLess(a, b) ==
  IF b = <<>> THEN FALSE
  ELSE IF a = <<>> THEN TRUE
  ELSE IF Head(a) # Head(b) THEN Head(a) < Head(b)
  ELSE strLess(Tail(a), Tail(b))

\* String.prototype.startsWith / endsWith
startsWith(s, prefix) == Len(s) >= Len(prefix) /\ SubSeq(s, 1, Len(prefix)) = prefix
endsWith(s, suffix) ==
  Len(s) >= Len(suffix) /\ SubSeq(s, Len(s) - Len(suffix) + 1, Len(s)) = suffix

\* String.prototype.split on a one-character separator
RECURSIVE split(_, _)
split(s, sep) ==
  LET at == {n \in 1..Len(s) : <<s[n]>> = sep}
  IN IF at = {} THEN <<s>>
     ELSE LET n == CHOOSE x \in at : \A y \in at : x <= y
          IN <<SubSeq(s, 1, n - 1)>> \o split(SubSeq(s, n + 1, Len(s)), sep)

\* /^\d{k}$/.test(s)
isDigits(s, k) == Len(s) = k /\ \A n \in 1..Len(s) : s[n] >= 48 /\ s[n] <= 57

\* Number(s) of a string of digits
RECURSIVE toNumber(_)
toNumber(s) ==
  IF s = <<>> THEN 0 ELSE 10 * toNumber(SubSeq(s, 1, Len(s) - 1)) + (s[Len(s)] - 48)

(***************************************************************************)
(* Dates (dateUtils).                                                      *)
(***************************************************************************)
\* the fields a Date shows in one time zone
At(year, month, day, hours, minutes) ==
  [year |-> year, month |-> month, day |-> day, hours |-> hours, minutes |-> minutes]

toYmdLocal(d) == [year |-> d.year, month |-> d.month, day |-> d.day]

\* `${ymd.year}-${pad2(ymd.month)}-${pad2(ymd.day)}`
ymdToString(ymd) ==
  toString(ymd.year) \o Hyphen \o pad2(ymd.month) \o Hyphen \o pad2(ymd.day)

\* `${pad2(d.getHours())}:${pad2(d.getMinutes())}`
formatTimeHmLocal(d) == pad2(d.hours) \o <<58>> \o pad2(d.minutes)

(***************************************************************************)
(* The world the program runs in: session roots, log files, settings.      *)
(***************************************************************************)
Roots == {"r1", "r2"}
\* the log files the Codex CLI wrote
Files == {"f1", "f2", "f3"}
\* the copies promoteSessionCopyToToday can make
Copies == {"p1"}
AllFiles == Files \cup Copies
\* the root directory under which each log file lives
RootOf == [f \in AllFiles |-> IF f = "f3" THEN "r2" ELSE "r1"]
\* the directories below the roots: r1/2024/05/01, and the directory of today
\* (2024-05-02) that promote creates, r1/2024/05/02
Dirs == {"d1", "d2"}
\* modification times and sizes a log file takes
Mtimes == {1, 2}
Sizes == {1, 2}
\* preview.maxMessages values the settings can hold
PreviewLimits == {1, 2}
\* resolveDateTimeSettings() results (ui language + time zone)
DateTimes == {"tzA", "tzB"}
\* the <<version, summaryAlgoVersion>> headers an older release of the
\* extension may have left in cache.v4.json
OldHeaders == {<<3, 3>>, <<4, 2>>}

\* cache.v4.json is absent, cannot be read (a directory, no permission), holds
\* bytes that do not parse, or holds a document
Missing == [kind |-> "missing"]

Corrupt == [kind |-> "corrupt"]
Json(data) == [kind |-> "json", data |-> data]
\* the JavaScript null, and a value that is not null
Null == [isNull |-> TRUE]
Some(v) == [isNull |-> FALSE, value |-> v]

\* normalizeCacheKey: path.normalize (and lower-casing on win32) of an
\* absolute path produced by path.join; distinct files get distinct keys.
\* "f1/." is another spelling of the path of f1, as a caller of the PinStore
\* may pass it.
normalizeCacheKey(f) ==
  CASE f = "f1" -> "k1"
    [] f = "f1/." -> "k1"
    [] f = "f2" -> "k2"
    [] f = "f3" -> "k3"
    [] f = "p1" -> "kp1"

\* getDateTimeSettingsKey: `uiLanguage=..;timeZone=..`, one key per setting
getDateTimeSettingsKey(dt) ==
  CASE dt = "tzA" -> "key:tzA"
    [] dt = "tzB" -> "key:tzB"

\* `rollout-<n>.jsonl`
RolloutName(n) == RolloutPrefix \o toString(n) \o JsonlSuffix

\* path.relative(root, dir).split(path.sep) of the directories
DirParts == [d \in Dirs |->
  IF d = "d1" THEN <<toString(2024), pad2(5), pad2(1)>>
  ELSE <<toString(2024), pad2(5), pad2(2)>>]

\* the directory a file is in (<<>>: the root itself) and its name there;
\* promote gives its copy a name no other file has (crypto.randomUUID)
DirOf == [f \in AllFiles |->
  CASE f = "f1" -> DirParts["d1"]
    [] f = "p1" -> DirParts["d2"]
    [] OTHER -> <<>>]
BaseName == [f \in AllFiles |->
  CASE f = "f1" -> RolloutName(1)
    [] f = "f2" -> RolloutName(2)
    [] f = "f3" -> RolloutName(3)
    [] f = "p1" -> RolloutName(9)]

(***************************************************************************)
(* Content of the log files.                                               *)
(***************************************************************************)

Instant(a, b) ==
  [kind |-> "instant", local |-> [dt \in DateTimes |-> IF dt = "tzA" THEN a ELSE b]]

\* new Date(stat.mtimeMs): mtime m is a morning of May m, 2024
MtimeLocal(m, dt) == At(2024, 5, m, IF dt = "tzA" THEN 9 ELSE 23, 0)

Cwd(parts) == [isString |-> TRUE, parts |-> parts]

\* one line of a JSONL file: blank, not JSON, or an object with its type,
\* payload.type, payload.role, the joined payload.content[].text and, in a
\* session_meta line, payload.timestamp and payload.cwd
Line(raw, type, ptype, role, text, ts, cwd) ==
  [raw |-> raw, type |-> type, ptype |-> ptype, role |-> role, text |-> text,
   ts |-> ts, cwd |-> cwd]
BlankLine == Line("blank", "", "", "", <<>>, [kind |-> "absent"], [isString |-> FALSE, parts |-> <<>>])
BadLine == Line("bad", "", "", "", <<>>, [kind |-> "absent"], [isString |-> FALSE, parts |-> <<>>])
SessionMeta(ts, cwd) == Line("json", "session_meta", "", "", <<>>, ts, cwd)
MetaLine == SessionMeta(Instant(At(2024, 5, 1, 10, 0), At(2024, 5, 2, 0, 0)), Cwd(<<"/", "proj">>))
CallLine == Line("json", "response_item", "function_call", "", <<>>, [kind |-> "absent"], [isString |-> FALSE, parts |-> <<>>])
Msg(role, text) == Line("json", "response_item", "message", role, text, [kind |-> "absent"], [isString |-> FALSE, parts |-> <<>>])

\* what the Codex CLI wrote into the log files
InitialLines(f) ==
  CASE f = "f1" -> <<MetaLine, Msg("user", <<"a", "B">>), BadLine,
                     Msg("assistant", <<"b">>), Msg("user", <<"A", "b">>), CallLine,
                     Msg("assistant", <<" ", "a", "b">>)>>
    [] f = "f2" -> <<SessionMeta(Instant(At(2024, 5, 1, 10, 0), At(2024, 5, 2, 0, 0)), Cwd(<<"/", "other">>)),
                     Msg("developer", <<"a", "b">>), BlankLine, Msg("user", <<" ", " ">>),
                     Msg("assistant", <<"A", "B">>), Msg("user", <<"a", "b">>)>>
    [] f = "f3" -> <<BadLine>>
    [] f = "p1" -> <<>>

VARIABLES
  disk,        \* [AllFiles -> [exists, mtime, size, readable, tmp]]
  logs,        \* [AllFiles -> the lines of the file]
  dirs,        \* [Dirs -> [exists, listable]]
  rootExists,  \* [Roots -> BOOLEAN]
  dateTime,    \* what resolveDateTimeSettings() returns now
  config,      \* HistoryService.config
  index,       \* HistoryService.index
  cacheFile,   \* content of globalStorage/cache.v4.json
  pc,          \* position of the refresh call in flight ("idle": none)
  r,           \* locals of the refresh call in flight
  outcome,     \* how the last refresh call ended
  envSteps,    \* number of changes of the outside world so far
  hist,        \* history of the refresh in flight (for the properties)
  token,       \* CancellationToken.isCancellationRequested of the search
  s_pc,        \* position of the search command
  s_loc,       \* locals of runSearchFlow and searchSessions
  s_result,    \* what searchSessions returned
  s_hist,      \* history of the search (for the properties)
  p_pc,        \* position of the promote command
  p_loc,       \* locals of promoteSessionCopyToToday
  tree,        \* the directory tree handed to findSessionFiles (SpecWalk)
  walked,      \* what findSessionFiles returned for it (SpecWalk)
  parked,      \* position and locals of a second refresh call, waiting at an await
  view,        \* SearchTreeDataProvider: rootNode and sessionNodes
  del,         \* position and locals of deleteSessionsWithConfirmation
  pins,        \* PinStore: the pin list in the Memento, and the last call
  chat         \* ChatPanelManager: the preview panel and its webview

vars == <<disk, logs, dirs, rootExists, dateTime, config, index, cacheFile, pc, r,
          outcome, envSteps, hist, token, s_pc, s_loc, s_result, s_hist,
          p_pc, p_loc, tree, walked, parked, view, del, pins, chat>>

searchVars == <<token, s_pc, s_loc, s_result, s_hist>>

refreshVars == <<index, cacheFile, pc, r, outcome, hist>>

\* the file system, the settings and the configuration
envVars == <<disk, logs, dirs, rootExists, dateTime, config, envSteps>>

(***************************************************************************)
(* Data of the program.                                                    *)
(***************************************************************************)
Configs == [sessionsRoot : Roots, previewMaxMessages : PreviewLimits]

EmptyMap == [k \in {} |-> TRUE]

\* m with key k set to v (an object property assignment)
Put(m, k, v) == [x \in (DOMAIN m) \cup {k} |-> IF x = k THEN v ELSE m[x]]

SeqToSet(s) == {s[n] : n \in 1..Len(s)}

\* the elements of s that are in S, in the order of s
RECURSIVE Only(_, _)
Only(s, S) ==
  IF s = <<>> THEN <<>>
  ELSE (IF Head(s) \in S THEN <<Head(s)>> ELSE <<>>) \o Only(Tail(s), S)

\* a file can be stat-ed when it and its root directory are there
Present(f) == rootExists[RootOf[f]] /\ disk[f].exists

\* a file can be opened for reading
Openable(f) == Present(f) /\ disk[f].readable

\* the lines of a log file
FileLines(f) == logs[f]

\* the name a file has now: promote writes its copy as `<name>.tmp` first
NameOf(f) == BaseName[f] \o (IF disk[f].tmp THEN <<46, 116, 109, 112>> ELSE <<>>)

\* path.relative(sessionsRoot, fsPath).split(path.sep)
RelParts(f) == DirOf[f] \o <<NameOf(f)>>

(***************************************************************************)
(* findSessionFiles (sessionDiscovery).                                    *)
(***************************************************************************)
\* A directory tree: does the root exist, and for each directory, named by
\* its path below the root, what readdir hands back: Null when it throws,
\* else the entries in readdir order.  An entry has a name and the type its
\* Dirent shows ("dir", "file", or "other" for links, sockets, devices).
Entry(name, type) == [name |-> name, type |-> type]

readdir(t, dir) == IF dir \in DOMAIN t.list THEN t.list[dir] ELSE Null

\* path.join(dir, ent.name) of every entry
pathsOf(dir, entries) == [n \in 1..Len(entries) |-> dir \o <<entries[n].name>>]

\* lines 66-68, the entry is pushed on the stack
isWalked(ent) == ent.type = "dir"

\* isCollected with the test of the suffix left out
isCollected_AnySuffix(ent) ==
  /\ ent.type = "file"
  /\ startsWith(ent.name, RolloutPrefix)

\* lines 66-73, the entry is pushed on the results
isCollected(ent) ==
  /\ ent.type # "dir"
  /\ ent.type = "file"
  /\ startsWith(ent.name, RolloutPrefix)
  /\ endsWith(ent.name, JsonlSuffix)

\* walk with a failed readdir ending the whole walk without files
RECURSIVE walk_AbortsOnError(_, _, _)
walk_AbortsOnError(t, stack, results) ==
  IF stack = <<>> THEN results
  ELSE LET dir == stack[Len(stack)]
           rest == SubSeq(stack, 1, Len(stack) - 1)
           entries == readdir(t, dir)
       IN IF entries.isNull THEN <<>>
          ELSE walk_AbortsOnError(t, rest \o pathsOf(dir, SelectSeq(entries.value, isWalked)),
                                  results \o pathsOf(dir, SelectSeq(entries.value, isCollected)))

\* lines 53-75, the loop: pop a directory, list it (a directory that cannot
\* be listed is skipped), push its directories and collect its files
RECURSIVE walk(_, _, _)
walk(t, stack, results) ==
  IF stack = <<>> THEN results
  ELSE LET dir == stack[Len(stack)]
           rest == SubSeq(stack, 1, Len(stack) - 1)
           entries == readdir(t, dir)
       IN IF entries.isNull THEN walk(t, rest, results)
          ELSE walk(t, rest \o pathsOf(dir, SelectSeq(entries.value, isWalked)),
                    results \o pathsOf(dir, SelectSeq(entries.value, isCollected)))

\* lines 47-78: the paths of the rollout files of the tree
findSessionFilesIn(t) == IF ~t.exists THEN <<>> ELSE walk(t, <<<<>>>>, <<>>)

\* what readdir hands back for the directories below a root, as the disk is
\* now: the root holds 2024/ and the files put directly into it, 2024/05/
\* holds the day directories
ListingOf(root, dir) ==
  LET filesHere == {f \in AllFiles : RootOf[f] = root /\ DirOf[f] = dir /\ disk[f].exists}
      fileEntries == [n \in 1..Cardinality(filesHere) |->
                        Entry(NameOf(Only(<<"f1", "f2", "f3", "p1">>, filesHere)[n]), "file")]
      dayEntries == [n \in 1..Cardinality({d \in Dirs : dirs[d].exists}) |->
                       Entry(DirParts[Only(<<"d1", "d2">>, {d \in Dirs : dirs[d].exists})[n]][3],
                             "dir")]
  IN IF \E d \in Dirs : DirParts[d] = dir /\ ~dirs[d].listable THEN Null
     ELSE IF dir = <<>> /\ root = "r1" THEN Some(<<Entry(toString(2024), "dir")>> \o fileEntries)
     ELSE IF dir = <<toString(2024)>> THEN Some(<<Entry(pad2(5), "dir")>>)
     ELSE IF dir = <<toString(2024), pad2(5)>> THEN Some(dayEntries)
     ELSE Some(fileEntries)

TreeOf(root) ==
  LET paths == IF root = "r1"
               THEN {<<>>, <<toString(2024)>>, <<toString(2024), pad2(5)>>}
                    \cup {DirParts[d] : d \in {x \in Dirs : dirs[x].exists}}
               ELSE {<<>>}
  IN [exists |-> rootExists[root],
      list |-> [dir \in paths |-> ListingOf(root, dir)]]

\* findSessionFiles(sessionsRoot) on the disk as it is now
findSessionFiles(sessionsRoot) ==
  LET found == findSessionFilesIn(TreeOf(sessionsRoot))
  IN [n \in 1..Len(found) |->
        CHOOSE f \in AllFiles : RootOf[f] = sessionsRoot /\ RelParts(f) = found[n]]

(***************************************************************************)
(* buildSessionSummary (sessionSummary).                                   *)
(***************************************************************************)

\* tryReadSessionMeta, after readFirstLineUtf8 has opened the file: null for
\* an empty file, an empty first line, a first line that is not JSON or not
\* of type session_meta
tryReadSessionMeta(lines) ==
  IF lines = <<>> THEN Null
  ELSE IF lines[1].raw # "json" THEN Null
  ELSE IF lines[1].type # "session_meta" THEN Null
  ELSE Some([timestampIso |-> lines[1].ts, cwd |-> lines[1].cwd])

\* inferYmdFromPath: the date of a file placed in YYYY/MM/DD below the root
inferYmdFromPath(parts) ==
  IF Len(parts) < 4 THEN Null
  ELSE IF ~(isDigits(parts[1], 4) /\ isDigits(parts[2], 2) /\ isDigits(parts[3], 2)) THEN Null
  ELSE LET year == toNumber(parts[1])
           month == toNumber(parts[2])
           day == toNumber(parts[3])
       IN IF ~(year >= 1970 /\ year <= 9999 /\ month >= 1 /\ month <= 12
               /\ day >= 1 /\ day <= 31)
          THEN Null
          ELSE Some([year |-> year, month |-> month, day |-> day])

\* lines 122-123, the start of the session in the display time zone
startLocalOf(meta, dt) ==
  IF meta.timestampIso.kind = "instant" THEN Some(meta.timestampIso.local[dt]) ELSE Null

\* a display date that prefers the start of the session to the path
displayYmd_TimestampFirst(parts, meta, dt, stat) ==
  IF ~startLocalOf(meta, dt).isNull THEN toYmdLocal(startLocalOf(meta, dt).value)
  ELSE IF ~inferYmdFromPath(parts).isNull THEN inferYmdFromPath(parts).value
  ELSE toYmdLocal(MtimeLocal(stat.mtimeMs, dt))

\* lines 121-130, the display date: from the path, else from the start of
\* the session, else from the modification time
displayYmd(parts, meta, dt, stat) ==
  IF ~inferYmdFromPath(parts).isNull THEN inferYmdFromPath(parts).value
  ELSE IF ~startLocalOf(meta, dt).isNull THEN toYmdLocal(startLocalOf(meta, dt).value)
  ELSE toYmdLocal(MtimeLocal(stat.mtimeMs, dt))

(***************************************************************************)
(* Preview messages and snippet.  A message text is a sequence of tokens:  *)
(* " " is white space, "<environment_context>" the prefix of a boilerplate *)
(* block, "My request for Codex:" a line holding that marker, "Generate a   *)
(* concise UI title" the opening of a title prompt; any other token is a   *)
(* word.  No text reaches 1200 characters (readPreviewMessages line 99).   *)
(***************************************************************************)

\* String.prototype.trim, the part of normalizeWhitespace that acts on text
\* without line breaks
RECURSIVE trimStart(_)
trimStart(t) == IF t # <<>> /\ Head(t) = " " THEN trimStart(Tail(t)) ELSE t
RECURSIVE trimEnd(_)
trimEnd(t) ==
  IF t # <<>> /\ t[Len(t)] = " " THEN trimEnd(SubSeq(t, 1, Len(t) - 1)) ELSE t
normalizeWhitespace(t) == trimEnd(trimStart(t))

\* singleLineSnippet: runs of white space become one space, the ends are
\* trimmed, and a text longer than maxLen is cut to maxLen - 1 and an ellipsis
singleLineSnippet(s, maxLen) ==
  LET t == normalizeWhitespace(s)
      keep == {n \in 1..Len(t) : ~(t[n] = " " /\ t[n - 1] = " ")}
      oneLine == [k \in 1..Cardinality(keep) |->
                    t[CHOOSE n \in keep : Cardinality({m \in keep : m <= n}) = k]]
  IN IF Len(oneLine) <= maxLen THEN oneLine
     ELSE SubSeq(oneLine, 1, maxLen - 1) \o <<"...">>

\* extractUserRequestText: what follows the first marker line, trimmed, when
\* that is not empty; the texts here have no `## [#n] User` heading, so
\* extractUserContentFromHeading finds nothing
extractUserRequestText(text) ==
  LET normalized == normalizeWhitespace(text)
      markers == {n \in 1..Len(normalized) : normalized[n] = "My request for Codex:"}
      markerIndex == CHOOSE n \in markers : \A m \in markers : n <= m
      body == normalizeWhitespace(SubSeq(normalized, markerIndex + 1, Len(normalized)))
  IN IF normalized = <<>> \/ markers = {} \/ body = <<>> THEN Null ELSE Some(body)

\* readPreviewMessages lines 89-94: the text of a message record
previewText(role, textRaw) ==
  LET textNormalized == normalizeWhitespace(textRaw)
  IN IF role = "user" /\ ~extractUserRequestText(textNormalized).isNull
     THEN extractUserRequestText(textNormalized).value
     ELSE textNormalized

\* isBoilerplateUserMessage: the trimmed text starts with one of the three
\* fixed prefixes
isBoilerplateUserMessage(text) ==
  LET t == normalizeWhitespace(text)
  IN t # <<>> /\ t[1] \in {"<environment_context>", "# AGENTS.md instructions", "<INSTRUCTIONS>"}

\* a scan in which every user or assistant message takes a slot of the
\* limit, kept or not
readPreviewMessages_CountsDiscarded(lines, maxMessages) ==
  LET scan[n \in 0..Len(lines)] ==
        IF n = 0 THEN [result |-> <<>>, scanned |-> 0, slots |-> 0]
        ELSE LET before == scan[n - 1]
                 line == lines[n]
                 text == previewText(line.role, line.text)
                 isMessage == /\ line.raw = "json"
                              /\ line.type = "response_item"
                              /\ line.ptype = "message"
                              /\ line.role \in {"user", "assistant"}
             IN IF before.slots >= maxMessages THEN before
                ELSE IF ~isMessage THEN [before EXCEPT !.scanned = n]
                ELSE IF text = <<>> \/ (line.role = "user" /\ isBoilerplateUserMessage(text))
                THEN [before EXCEPT !.scanned = n, !.slots = @ + 1]
                ELSE [result |-> Append(before.result, [role |-> line.role, text |-> text]),
                      scanned |-> n, slots |-> before.slots + 1]
  IN [result |-> scan[Len(lines)].result, scanned |-> scan[Len(lines)].scanned]

\* readPreviewMessages: the loop over the lines of the file.  scan[n] is
\* the state after line n: the messages pushed so far and the number of the
\* last line that got past the break of line 76.
readPreviewMessages(lines, maxMessages) ==
  LET scan[n \in 0..Len(lines)] ==
        IF n = 0 THEN [result |-> <<>>, scanned |-> 0]
        ELSE LET before == scan[n - 1]
                 line == lines[n]
                 text == previewText(line.role, line.text)
             IN \* line 76: break
                IF Len(before.result) >= maxMessages THEN before
                \* lines 77-87: a blank line, a line that is not JSON, a record
                \* that is not a message of the user or of the assistant
                ELSE IF \/ line.raw # "json"
                        \/ line.type # "response_item"
                        \/ line.ptype # "message"
                        \/ line.role \notin {"user", "assistant"}
                THEN [before EXCEPT !.scanned = n]
                \* lines 95-96: no text, or a boilerplate message of the user
                ELSE IF text = <<>> \/ (line.role = "user" /\ isBoilerplateUserMessage(text))
                THEN [before EXCEPT !.scanned = n]
                \* line 100
                ELSE [result |-> Append(before.result, [role |-> line.role, text |-> text]),
                      scanned |-> n]
  IN scan[Len(lines)]

\* pickSessionSnippetSource: the first message of the user with text, or,
\* when that is a title prompt, the first message of the assistant with
\* text after it, if there is one; null without a message of the user
pickSessionSnippetSource(messages) ==
  LET withText(role) ==
        {n \in 1..Len(messages) :
           messages[n].role = role /\ normalizeWhitespace(messages[n].text) # <<>>}
      firstUserIndex == CHOOSE n \in withText("user") : \A m \in withText("user") : n <= m
      firstUser == normalizeWhitespace(messages[firstUserIndex].text)
      later == {n \in withText("assistant") : n > firstUserIndex}
      nextAssistant == CHOOSE n \in later : \A m \in later : n <= m
  IN IF withText("user") = {} THEN Null
     ELSE IF firstUser[1] = "Generate a concise UI title" /\ later # {}
     THEN Some(normalizeWhitespace(messages[nextAssistant].text))
     ELSE Some(firstUser)

\* What buildSessionSummary returns for file f with the lines `lines`, stat-ed
\* as `stat` and read in state `content` (the (mtime, size) generation of its
\* bytes, which the snippet and the preview messages are made from), with the
\* given preview limit and time zone.  ymd, previewMaxMessages, timeZone and
\* content are not fields of the SessionSummary: they record what the
\* summary was made from; snippet.from tells the snippet of a message from
\* path.basename(fsPath).
SummaryOf(f, parts, lines, pm, dt, stat, content) ==
  LET read == tryReadSessionMeta(lines)
      meta == IF read.isNull THEN [timestampIso |-> [kind |-> "absent"], cwd |-> [isString |-> FALSE, parts |-> <<>>]] ELSE read.value
      startLocal == startLocalOf(meta, dt)
  IN [fsPath |-> f,
      cacheKey |-> normalizeCacheKey(f),
      meta |-> meta,
      ymd |-> displayYmd(parts, meta, dt, stat),
      localDate |-> ymdToString(displayYmd(parts, meta, dt, stat)),
      timeLabel |-> IF startLocal.isNull THEN <<45, 45, 58, 45, 45>>
                    ELSE formatTimeHmLocal(startLocal.value),
      previewMessages |-> readPreviewMessages(lines, pm).result,
      snippet |-> IF pickSessionSnippetSource(readPreviewMessages(lines, pm).result).isNull
                  THEN [from |-> "basename", text |-> BaseName[f]]
                  ELSE [from |-> "message",
                        text |-> singleLineSnippet(
                                   pickSessionSnippetSource(
                                     readPreviewMessages(lines, pm).result).value, 70)],
      previewMaxMessages |-> pm,
      timeZone |-> dt,
      content |-> content]

(***************************************************************************)
(* The cache file (jsonStorage, historyService).                           *)
(***************************************************************************)
\* readJson falling back to a built-in document instead of null
readJson_FallsBackToDefault(file) ==
  IF file.kind = "json" THEN Some(file.data)
  ELSE Some([version |-> CACHE_FORMAT_VERSION,
             summaryAlgoVersion |-> SUMMARY_CACHE_ALGO_VERSION,
             sessionsRoot |-> "r1", previewMaxMessages |-> 1,
             dateTimeSettingsKey |-> getDateTimeSettingsKey("tzA"),
             entries |-> EmptyMap])

\* readJson: readFile, decode and JSON.parse inside one try; null when the
\* file is missing, cannot be read or does not parse
readJson(file) == IF file.kind = "json" THEN Some(file.data) ELSE Null

\* loadCache with the forceRebuildCache flag ignored
loadCache_IgnoresForce(force, file) == readJson(file)

\* historyService.ts:76, the cache document refresh starts from
loadCache(force, file) == IF force THEN Null ELSE readJson(file)

\* cachedEntriesOf with the comparison of previewMaxMessages left out
cachedEntriesOf_NoPreviewCheck(cache, sessionsRoot, previewMaxMessages, dateTimeSettingsKey) ==
  IF /\ ~cache.isNull
     /\ cache.value.version = CACHE_FORMAT_VERSION
     /\ cache.value.summaryAlgoVersion = SUMMARY_CACHE_ALGO_VERSION
     /\ cache.value.sessionsRoot = sessionsRoot
     /\ cache.value.dateTimeSettingsKey = dateTimeSettingsKey
  THEN cache.value.entries
  ELSE EmptyMap

\* historyService.ts:78-86, the entries of the loaded cache that are trusted
cachedEntriesOf(cache, sessionsRoot, previewMaxMessages, dateTimeSettingsKey) ==
  IF /\ ~cache.isNull
     /\ cache.value.version = CACHE_FORMAT_VERSION
     /\ cache.value.summaryAlgoVersion = SUMMARY_CACHE_ALGO_VERSION
     /\ cache.value.sessionsRoot = sessionsRoot
     /\ cache.value.previewMaxMessages = previewMaxMessages
     /\ cache.value.dateTimeSettingsKey = dateTimeSettingsKey
  THEN cache.value.entries
  ELSE EmptyMap

\* reusable with the comparison of the size left out
reusable_IgnoresSize(cachedEntries, key, st) ==
  /\ key \in DOMAIN cachedEntries
  /\ cachedEntries[key].mtimeMs = st.mtimeMs

\* historyService.ts:104, may the cached entry stand for the file as stat-ed
reusable(cachedEntries, key, st) ==
  /\ key \in DOMAIN cachedEntries
  /\ cachedEntries[key].mtimeMs = st.mtimeMs
  /\ cachedEntries[key].size = st.size

\* historyService.ts:122-125, the comparator puts a before b: localDate
\* descending, then timeLabel descending, both compared as strings
newerFirst(a, b) ==
  IF a.localDate # b.localDate THEN ~strLess(a.localDate, b.localDate)
  ELSE strLess(b.timeLabel, a.timeLabel)

\* Array.prototype.sort with that comparator: a stable insertion of x into
\* the sorted s, after every element that does not sort after x
RECURSIVE insertSorted(_, _)
insertSorted(s, x) ==
  IF s = <<>> THEN <<x>>
  ELSE IF newerFirst(x, Head(s)) THEN <<x>> \o s
  ELSE <<Head(s)>> \o insertSorted(Tail(s), x)

RECURSIVE sortSummaries(_)
sortSummaries(s) ==
  IF s = <<>> THEN <<>>
  ELSE insertSorted(sortSummaries(SubSeq(s, 1, Len(s) - 1)), s[Len(s)])

\* nextCacheOf starting from the trusted entries instead of an empty object
nextCacheOf_KeepsOldEntries(sessionsRoot, previewMaxMessages, dateTimeSettingsKey, nextEntries) ==
  [version |-> CACHE_FORMAT_VERSION,
   summaryAlgoVersion |-> SUMMARY_CACHE_ALGO_VERSION,
   sessionsRoot |-> sessionsRoot,
   previewMaxMessages |-> previewMaxMessages,
   dateTimeSettingsKey |-> dateTimeSettingsKey,
   entries |-> [k \in DOMAIN r.cachedEntries \cup DOMAIN nextEntries |->
                  IF k \in DOMAIN nextEntries THEN nextEntries[k] ELSE r.cachedEntries[k]]]

\* historyService.ts:128-135, the cache document refresh writes
nextCacheOf(sessionsRoot, previewMaxMessages, dateTimeSettingsKey, nextEntries) ==
  [version |-> CACHE_FORMAT_VERSION,
   summaryAlgoVersion |-> SUMMARY_CACHE_ALGO_VERSION,
   sessionsRoot |-> sessionsRoot,
   previewMaxMessages |-> previewMaxMessages,
   dateTimeSettingsKey |-> dateTimeSettingsKey,
   entries |-> nextEntries]

(***************************************************************************)
(* The index (historyService buildIndex).                                  *)
(***************************************************************************)
emptyIndex(sessionsRoot) ==
  [sessionsRoot |-> sessionsRoot, sessions |-> <<>>,
   byYmd |-> EmptyMap, byYm |-> EmptyMap, byY |-> EmptyMap]

\* line 146: [yyyy, mm, dd] = s.localDate.split("-"), undefined where the
\* split has fewer parts
ymdParts(s) ==
  LET parts == split(s.localDate, Hyphen)
  IN [n \in 1..3 |-> IF n <= Len(parts) THEN parts[n] ELSE <<>>]

\* a comparator that puts the smaller time label first
RECURSIVE insertByTime_Ascending(_, _)
insertByTime_Ascending(s, x) ==
  IF s = <<>> THEN <<x>>
  ELSE IF strLess(x.timeLabel, Head(s).timeLabel) THEN <<x>> \o s
  ELSE <<Head(s)>> \o insertByTime_Ascending(Tail(s), x)

\* line 169: the comparator of the day lists puts x before the head when
\* its time label is the greater
RECURSIVE insertByTime(_, _)
insertByTime(s, x) ==
  IF s = <<>> THEN <<x>>
  ELSE IF strLess(Head(s).timeLabel, x.timeLabel) THEN <<x>> \o s
  ELSE <<Head(s)>> \o insertByTime(Tail(s), x)

RECURSIVE sortByTime(_)
sortByTime(s) ==
  IF s = <<>> THEN <<>>
  ELSE insertByTime(sortByTime(SubSeq(s, 1, Len(s) - 1)), s[Len(s)])

\* buildIndex: the flat list and its groupings by day, by month and by
\* year/month/day; the day lists of byY are sorted by time label
buildIndex(sessionsRoot, summaries) ==
  LET \* line 147: a summary without a year, month or day part is left out
      kept == SelectSeq(summaries, LAMBDA s : /\ ymdParts(s)[1] # <<>>
                                              /\ ymdParts(s)[2] # <<>>
                                              /\ ymdParts(s)[3] # <<>>)
      all == SeqToSet(kept)
      inYmd(k) == SelectSeq(kept, LAMBDA s : s.localDate = k)
      inYm(y, m) == SelectSeq(kept, LAMBDA s : ymdParts(s)[1] = y /\ ymdParts(s)[2] = m)
      inDay(y, m, d) ==
        SelectSeq(kept, LAMBDA s : ymdParts(s)[1] = y /\ ymdParts(s)[2] = m
                                   /\ ymdParts(s)[3] = d)
      years == {ymdParts(s)[1] : s \in all}
      months(y) == {ymdParts(s)[2] : s \in {x \in all : ymdParts(x)[1] = y}}
      days(y, m) ==
        {ymdParts(s)[3] : s \in {x \in all : ymdParts(x)[1] = y /\ ymdParts(x)[2] = m}}
  IN [sessionsRoot |-> sessionsRoot,
      sessions |-> summaries,
      byYmd |-> [k \in {s.localDate : s \in all} |-> inYmd(k)],
      byYm |-> [y \in years |-> [m \in months(y) |-> inYm(y, m)]],
      byY |-> [y \in years |-> [m \in months(y) |->
                 [d \in days(y, m) |-> sortByTime(inDay(y, m, d))]]]]

(***************************************************************************)
(* Initial states.                                                         *)
(***************************************************************************)
NoLocals ==
  [force |-> FALSE, sessionsRoot |-> "r1", dateTime |-> "tzA",
   cachedEntries |-> EmptyMap, files |-> <<>>, i |-> 1,
   st |-> [mtimeMs |-> 1, size |-> 1], argPm |-> 1,
   stat |-> [mtimeMs |-> 1, size |-> 1],
   nextEntries |-> EmptyMap, summaries |-> <<>>, nextCache |-> Null]

NoSearchLocals ==
  [index |-> emptyIndex("r1"), scope |-> [kind |-> "all", value |-> <<>>], project |-> Null,
   sessions |-> <<>>, query |-> <<>>, maxResults |-> 1, caseSensitive |-> FALSE,
   i |-> 1, pos |-> 0, msgIndex |-> 0, totalHits |-> 0, bySession |-> <<>>]

NoSearchHist == [opened |-> {}, cancelledAtStart |-> FALSE, cancelWithWork |-> FALSE]

NoHist ==
  [loaded |-> Null, fileAtLoad |-> "", pmAtLoad |-> 1, invoked |-> {},
   stated |-> EmptyMap, computed |-> EmptyMap,
   beganAt |-> 0, searchAt |-> "idle", installed |-> FALSE, prev |-> Null,
   writes |-> 0]

\* a cache file left by an earlier run: every file of root r1, summarized
\* when it had mtime 1 and size 1
OldCache(ver, algo) ==
  [version |-> ver,
   summaryAlgoVersion |-> algo,
   sessionsRoot |-> "r1",
   previewMaxMessages |-> 1,
   dateTimeSettingsKey |-> getDateTimeSettingsKey("tzA"),
   entries |->
     [k \in {normalizeCacheKey(f) : f \in {g \in Files : RootOf[g] = "r1"}} |->
        LET f == CHOOSE g \in Files : normalizeCacheKey(g) = k
        IN [mtimeMs |-> 1, size |-> 1,
            summary |-> SummaryOf(f, DirOf[f] \o <<BaseName[f]>>, InitialLines(f), 1, "tzA",
                                  [mtimeMs |-> 1, size |-> 1], [mtimeMs |-> 1, size |-> 1])]]]

\* no deletion is running; `choice` is the answer to the confirmation
\* dialog, `present` the targets that were on disk when it was answered,
\* `trash` and `quarantine` the targets that have arrived in the OS trash and
\* in <globalStorage>/deleted, `unlinked` the targets removed for good
NoDelete ==
  [pc |-> "idle", useTrash |-> TRUE, sessions |-> <<>>, i |-> 1, stage |-> "trash",
   choice |-> "none", present |-> {}, trash |-> {}, quarantine |-> {}, unlinked |-> {}]

\* an empty pin list (pinStore.ts getAll: no array under PINS_KEY), no call
\* made; `before` is the list the last call found, `given` its argument
NoPins ==
  [list |-> <<>>, op |-> "none", given |-> <<>>, before |-> <<>>,
   result |-> [changed |-> 0, skipped |-> 0]]

\* no preview panel (chatPanelManager.ts:14-17): `state` is stateByPanel,
\* `ready` readyByPanel, `building` the sendSessionData calls that wait for
\* buildChatSessionModel, each with the path it read from the state,
\* `posted` the session of the last sessionData message posted
NoPanel ==
  [exists |-> FALSE, ready |-> FALSE, state |-> Null, building |-> {}, posted |-> Null,
   postedUnready |-> FALSE]

\* log files that may or may not be on disk when the extension starts
InitiallyOptional == {"f2"}

\* no command has been run: no search, an empty search view
\* (searchTree.ts:16-17), no second refresh call, no deletion, no pin, no
\* chat panel
InitSearchIdle ==
  /\ token = FALSE
  /\ s_pc = "idle"
  /\ s_loc = NoSearchLocals
  /\ s_result = Null
  /\ s_hist = NoSearchHist
  /\ view = [root |-> Null, clearedDuringSearch |-> FALSE]
  /\ parked = [pc |-> "idle", r |-> NoLocals]
  /\ del = NoDelete
  /\ pins = NoPins
  /\ chat = NoPanel

\* the disk with the log files of the Codex CLI, the files of `gone` missing
InitDisk(gone) ==
  /\ disk = [f \in AllFiles |->
               [exists |-> f \in Files \ gone, mtime |-> 1, size |-> 1,
                readable |-> TRUE, tmp |-> FALSE]]
  /\ logs = [f \in AllFiles |-> InitialLines(f)]
  /\ dirs = [d \in Dirs |-> [exists |-> d = "d1", listable |-> TRUE]]
  /\ rootExists = [x \in Roots |-> TRUE]

\* the service as its constructor leaves it
InitService ==
  /\ index = emptyIndex(config.sessionsRoot)
  /\ pc = "idle"
  /\ r = NoLocals
  /\ outcome = "none"
  /\ hist = NoHist

Init ==
  /\ InitSearchIdle
  /\ p_pc = "idle"
  /\ p_loc = [session |-> "f1", sessionsRoot |-> "r1", dest |-> "p1", deltaKnown |-> FALSE,
               promoted |-> Null]
  /\ tree = [exists |-> FALSE, list |-> EmptyMap]
  /\ walked = Null
  /\ \E gone \in SUBSET InitiallyOptional : InitDisk(gone)
  /\ dateTime = "tzA"
  /\ config = [sessionsRoot |-> "r1", previewMaxMessages |-> 1]
  /\ InitService
  /\ cacheFile \in {Missing, [kind |-> "unreadable"]} \cup {Json(OldCache(h[1], h[2])) : h \in OldHeaders}
  /\ envSteps = 0

(***************************************************************************)
(* HistoryService.refresh, one action per stretch between two awaits.      *)
(***************************************************************************)

\* refresh({forceRebuildCache}) is called: lines 65-67, up to the await of
\* pathExists
RefreshBegin(force) ==
  /\ pc = "idle"
  /\ r' = [NoLocals EXCEPT !.force = force, !.sessionsRoot = config.sessionsRoot]
  /\ hist' = [NoHist EXCEPT
                !.beganAt = envSteps,
                !.searchAt = s_pc,
                !.prev = IF hist.installed
                         THEN Some([index |-> index, since |-> hist.beganAt])
                         ELSE Null]
  /\ outcome' = "running"
  /\ pc' = "load"
  /\ UNCHANGED <<envVars, index, cacheFile>>
  /\ UNCHANGED <<searchVars, <<p_pc, p_loc>>, <<pins, chat, tree, walked, parked, view, del>>>>

\* searchProvider.clear() (searchTree.ts:40-44), which the commands that
\* refresh call when refresh has returned (extension.ts:398, 413, 608, 641,
\* 711, 308); the view remembers whether a search was scanning then
clear ==
  [root |-> Null, clearedDuringSearch |-> s_pc \in {"file", "line"}]

\* lines 67-88: pathExists answers, and a missing root installs the empty
\* index and returns.  Otherwise the date/time settings are resolved, the
\* cache is read (not at all under forceRebuildCache), its header is compared
\* with the configuration and discovery is requested.
RefreshLoadCache ==
  /\ pc = "load"
  /\ IF ~rootExists[r.sessionsRoot]
     THEN /\ index' = emptyIndex(r.sessionsRoot)
          /\ pc' = "idle"
          /\ outcome' = "returned"
          /\ hist' = [hist EXCEPT !.installed = TRUE]
          /\ r' = r
          /\ view' = clear
     ELSE LET cache == loadCache(r.force, cacheFile)
          IN /\ r' = [r EXCEPT !.dateTime = dateTime,
                               !.cachedEntries =
                                  cachedEntriesOf(cache, r.sessionsRoot,
                                                  config.previewMaxMessages,
                                                  getDateTimeSettingsKey(dateTime))]
             /\ hist' = [hist EXCEPT !.loaded = cache,
                                     !.fileAtLoad = cacheFile.kind,
                                     !.pmAtLoad = config.previewMaxMessages]
             /\ pc' = "discover"
             /\ UNCHANGED <<index, outcome, view>>
  /\ UNCHANGED <<envVars, cacheFile>>
  /\ UNCHANGED <<searchVars, <<p_pc, p_loc>>, <<pins, chat, tree, walked, parked, del>>>>

\* line 88: discovery answers
RefreshDiscover ==
  /\ pc = "discover"
  /\ r' = [r EXCEPT !.files = findSessionFiles(r.sessionsRoot), !.i = 1]
  /\ pc' = "stat"
  /\ UNCHANGED <<envVars, index, cacheFile, outcome, hist>>
  /\ UNCHANGED <<searchVars, <<p_pc, p_loc>>, <<pins, chat, tree, walked, parked, view, del>>>>

\* a loop that is left after its first iteration
passDone_AfterFirst(i, files) == i > 1 \/ i > Len(files)

\* line 92: the loop `for (const fsPath of files)` is over
passDone(i, files) == i > Len(files)

\* lines 92-115: the stat of files[i] answers.  A failed stat skips the file,
\* an entry with the same mtime and size is reused, otherwise
\* buildSessionSummary is called with the preview limit of this moment.
RefreshStat ==
  /\ pc = "stat"
  /\ ~passDone(r.i, r.files)
  /\ LET fsPath == r.files[r.i]
         key == normalizeCacheKey(fsPath)
         st == [mtimeMs |-> disk[fsPath].mtime, size |-> disk[fsPath].size]
     IN IF ~Present(fsPath)
        THEN /\ r' = [r EXCEPT !.i = r.i + 1]
             /\ pc' = "stat"
             /\ hist' = hist
        ELSE IF reusable(r.cachedEntries, key, st)
        THEN /\ r' = [r EXCEPT !.nextEntries = Put(r.nextEntries, key, r.cachedEntries[key]),
                               !.summaries = Append(r.summaries, r.cachedEntries[key].summary),
                               !.i = r.i + 1]
             /\ pc' = "stat"
             /\ hist' = [hist EXCEPT !.stated = Put(hist.stated, fsPath, st)]
        ELSE /\ r' = [r EXCEPT !.st = st, !.argPm = config.previewMaxMessages]
             /\ pc' = "xstat"
             /\ hist' = [hist EXCEPT !.stated = Put(hist.stated, fsPath, st),
                                     !.invoked = hist.invoked \cup {fsPath}]
  /\ UNCHANGED <<envVars, index, cacheFile, outcome>>
  /\ UNCHANGED <<searchVars, <<p_pc, p_loc>>, <<pins, chat, tree, walked, parked, view, del>>>>

\* buildSessionSummary, statSafe answers: null for a file that is gone, and
\* refresh continues with the next file (line 116)
ExtractStat ==
  /\ pc = "xstat"
  /\ IF ~Present(r.files[r.i])
     THEN /\ r' = [r EXCEPT !.i = r.i + 1]
          /\ pc' = "stat"
     ELSE /\ r' = [r EXCEPT !.stat = [mtimeMs |-> disk[r.files[r.i]].mtime,
                                      size |-> disk[r.files[r.i]].size]]
          /\ pc' = "xread"
  /\ UNCHANGED <<envVars, index, cacheFile, outcome, hist>>
  /\ UNCHANGED <<searchVars, <<p_pc, p_loc>>, <<pins, chat, tree, walked, parked, view, del>>>>

\* an entry whose fingerprint is the state of the file when its content was
\* read
cacheEntry_StatAtRead(st, summary) ==
  [mtimeMs |-> summary.content.mtimeMs, size |-> summary.content.size, summary |-> summary]

\* line 117: the entry of a computed summary carries the fingerprint st that
\* refresh took before it called buildSessionSummary
cacheEntry(st, summary) ==
  [mtimeMs |-> st.mtimeMs, size |-> st.size, summary |-> summary]

\* buildSessionSummary, tryReadSessionMeta and readPreviewMessages: fs.open
\* and the read stream are not guarded, so a file that cannot be opened
\* rejects buildSessionSummary and with it refresh.  Otherwise the summary is
\* stored under the fingerprint taken by RefreshStat (lines 117-118).
ExtractRead ==
  /\ pc = "xread"
  /\ LET fsPath == r.files[r.i]
         key == normalizeCacheKey(fsPath)
         summary == SummaryOf(fsPath, RelParts(fsPath), FileLines(fsPath), r.argPm,
                              r.dateTime, r.stat,
                              [mtimeMs |-> disk[fsPath].mtime, size |-> disk[fsPath].size])
     IN IF ~Openable(fsPath)
        THEN /\ pc' = "idle"
             /\ outcome' = "raised"
             /\ UNCHANGED <<r, hist>>
        ELSE /\ r' = [r EXCEPT !.nextEntries = Put(r.nextEntries, key, cacheEntry(r.st, summary)),
                               !.summaries = Append(r.summaries, summary),
                               !.i = r.i + 1]
             /\ pc' = "stat"
             /\ outcome' = outcome
             /\ hist' = [hist EXCEPT !.computed = Put(hist.computed, key, summary)]
  /\ UNCHANGED <<envVars, index, cacheFile>>
  /\ UNCHANGED <<searchVars, <<p_pc, p_loc>>, <<pins, chat, tree, walked, parked, view, del>>>>

\* lines 121-136: after the last file the summaries are sorted, the index is
\* replaced and the write of the new cache document is requested
RefreshFinish ==
  /\ pc = "stat"
  /\ passDone(r.i, r.files)
  /\ index' = buildIndex(r.sessionsRoot, sortSummaries(r.summaries))
  /\ r' = [r EXCEPT !.nextCache =
             Some(nextCacheOf(r.sessionsRoot, config.previewMaxMessages,
                              getDateTimeSettingsKey(r.dateTime), r.nextEntries))]
  /\ hist' = [hist EXCEPT !.installed = TRUE]
  /\ pc' = "write"
  /\ UNCHANGED <<envVars, cacheFile, outcome>>
  /\ UNCHANGED <<searchVars, <<p_pc, p_loc>>, <<pins, chat, tree, walked, parked, view, del>>>>

\* writeJson: workspace.fs.writeFile overwrites cache.v4.json in place.  It
\* succeeds, fails before touching the file, or fails after the file was
\* truncated or partly written; a failure rejects refresh.
writeJson(file, data, result) ==
  CASE result = "written" -> Json(data)
    [] result = "refused" -> file
    [] result = "partial" -> Corrupt

WriteResults == {"written", "refused", "partial"}

\* line 136: the write answers and refresh returns, or rejects; after a
\* refresh that returned the command clears the search view
RefreshWrite ==
  /\ pc = "write"
  /\ \E result \in WriteResults :
       /\ cacheFile' = writeJson(cacheFile, r.nextCache.value, result)
       /\ outcome' = IF result = "written" THEN "returned" ELSE "raised"
       /\ view' = IF result = "written" THEN clear ELSE view
  /\ hist' = [hist EXCEPT !.writes = hist.writes + 1]
  /\ pc' = "idle"
  /\ UNCHANGED <<envVars, index, r>>
  /\ UNCHANGED <<searchVars, <<p_pc, p_loc>>, <<pins, chat, tree, walked, parked, del>>>>

(***************************************************************************)
(* The outside world: the Codex CLI and the user change the log files, the *)
(* settings change, another command calls updateConfig(getConfig()).       *)
(***************************************************************************)

\* the file is appended to or touched
FileWritten(f) ==
  /\ envSteps < MaxEnvSteps
  /\ disk[f].exists
  /\ \E m \in Mtimes, s \in Sizes :
       /\ <<m, s>> # <<disk[f].mtime, disk[f].size>>
       /\ disk' = [disk EXCEPT ![f].mtime = m, ![f].size = s]
  /\ envSteps' = envSteps + 1
  /\ UNCHANGED <<logs, dirs, rootExists, dateTime, config>>
  /\ UNCHANGED <<refreshVars, searchVars, <<p_pc, p_loc>>, <<pins, chat, tree, walked, parked, view, del>>>>

\* the file is moved away (deleted, trashed)
FileRemoved(f) ==
  /\ envSteps < MaxEnvSteps
  /\ disk[f].exists
  /\ disk' = [disk EXCEPT ![f].exists = FALSE]
  /\ envSteps' = envSteps + 1
  /\ UNCHANGED <<logs, dirs, rootExists, dateTime, config>>
  /\ UNCHANGED <<refreshVars, searchVars, <<p_pc, p_loc>>, <<pins, chat, tree, walked, parked, view, del>>>>

\* the file is moved back, with the mtime and size it had
FileRestored(f) ==
  /\ envSteps < MaxEnvSteps
  /\ ~disk[f].exists
  /\ disk' = [disk EXCEPT ![f].exists = TRUE]
  /\ envSteps' = envSteps + 1
  /\ UNCHANGED <<logs, dirs, rootExists, dateTime, config>>
  /\ UNCHANGED <<refreshVars, searchVars, <<p_pc, p_loc>>, <<pins, chat, tree, walked, parked, view, del>>>>

\* the read permission of the file is taken away or given back
FileChmod(f) ==
  /\ envSteps < MaxEnvSteps
  /\ disk[f].exists
  /\ disk' = [disk EXCEPT ![f].readable = ~disk[f].readable]
  /\ envSteps' = envSteps + 1
  /\ UNCHANGED <<logs, dirs, rootExists, dateTime, config>>
  /\ UNCHANGED <<refreshVars, searchVars, <<p_pc, p_loc>>, <<pins, chat, tree, walked, parked, view, del>>>>

\* the read permission of a directory is taken away or given back
DirChmod(d) ==
  /\ envSteps < MaxEnvSteps
  /\ dirs[d].exists
  /\ dirs' = [dirs EXCEPT ![d].listable = ~dirs[d].listable]
  /\ envSteps' = envSteps + 1
  /\ UNCHANGED <<disk, logs, rootExists, dateTime, config>>
  /\ UNCHANGED <<refreshVars, searchVars, <<p_pc, p_loc>>, <<pins, chat, tree, walked, parked, view, del>>>>

RootToggled(root) ==
  /\ envSteps < MaxEnvSteps
  /\ rootExists' = [rootExists EXCEPT ![root] = ~rootExists[root]]
  /\ envSteps' = envSteps + 1
  /\ UNCHANGED <<disk, logs, dirs, dateTime, config>>
  /\ UNCHANGED <<refreshVars, searchVars, <<p_pc, p_loc>>, <<pins, chat, tree, walked, parked, view, del>>>>

DateTimeChanged(dt) ==
  /\ envSteps < MaxEnvSteps
  /\ dt # dateTime
  /\ dateTime' = dt
  /\ envSteps' = envSteps + 1
  /\ UNCHANGED <<disk, logs, dirs, rootExists, config>>
  /\ UNCHANGED <<refreshVars, searchVars, <<p_pc, p_loc>>, <<pins, chat, tree, walked, parked, view, del>>>>

\* HistoryService.updateConfig, lines 51-53
updateConfig(c) ==
  /\ envSteps < MaxEnvSteps
  /\ c # config
  /\ config' = c
  /\ envSteps' = envSteps + 1
  /\ UNCHANGED <<disk, logs, dirs, rootExists, dateTime>>
  /\ UNCHANGED <<refreshVars, searchVars, <<p_pc, p_loc>>, <<pins, chat, tree, walked, parked, view, del>>>>

Next ==
  \/ \E force \in BOOLEAN : RefreshBegin(force)
  \/ RefreshLoadCache
  \/ RefreshDiscover
  \/ RefreshStat
  \/ ExtractStat
  \/ ExtractRead
  \/ RefreshFinish
  \/ RefreshWrite
  \/ \E f \in Files : FileWritten(f)
  \/ \E f \in Files : FileRemoved(f)
  \/ \E f \in Files : FileRestored(f)
  \/ \E f \in Files : FileChmod(f)
  \/ \E d \in Dirs : DirChmod(d)
  \/ \E root \in Roots : RootToggled(root)
  \/ \E dt \in DateTimes : DateTimeChanged(dt)
  \/ \E c \in Configs : updateConfig(c)

Spec == Init /\ [][Next]_vars

(***************************************************************************)
(* Text of the messages, as the search reads it.                           *)
(***************************************************************************)
\* the queries typed into the input box
Queries == {<<"a", "b">>, <<"b">>}

\* String.prototype.toLowerCase, character by character
lowerChar(c) == CASE c = "A" -> "a" [] c = "B" -> "b" [] OTHER -> c
toLowerCase(t) == [n \in 1..Len(t) |-> lowerChar(t[n])]

\* String.prototype.indexOf: the first 0-based offset of needle in hay, or -1
indexOf(hay, needle) ==
  LET at == {n \in 0..(Len(hay) - Len(needle)) :
               SubSeq(hay, n + 1, n + Len(needle)) = needle}
  IN IF at = {} THEN -1 ELSE CHOOSE n \in at : \A m \in at : n <= m

\* lines 122-135: the line is a user or assistant message with text
isSearchable(line) ==
  /\ line.raw = "json"
  /\ line.type = "response_item"
  /\ line.ptype = "message"
  /\ line.role \in {"user", "assistant"}
  /\ normalizeWhitespace(line.text) # <<>>

\* lines 139-141: the offset of the query in the message, or -1
hitAt(line, query, caseSensitive) ==
  LET text == normalizeWhitespace(line.text)
      hay == IF caseSensitive THEN text ELSE toLowerCase(text)
      normalizedNeedle == IF caseSensitive THEN query ELSE toLowerCase(query)
  IN indexOf(hay, normalizedNeedle)

\* abortsBeforeFile with the check left out
abortsBeforeFile_Never(tok) == FALSE

\* line 108, the check before a file is started
abortsBeforeFile(tok) == tok

\* abortsBeforeLine with the check left out
abortsBeforeLine_Never(tok) == FALSE

\* line 118, the check before a line is tested
abortsBeforeLine(tok) == tok

\* capReached off by one
capReached_OffByOne(totalHits, maxResults) == totalHits > maxResults

\* lines 119 and 149, the cap on the hits
capReached(totalHits, maxResults) == totalHits >= maxResults

\* a Map whose entry is set anew with every hit of the session
addHit_ReplacesEntry(bySession, session, hit) ==
  IF \E n \in 1..Len(bySession) : bySession[n].session.cacheKey = session.cacheKey
  THEN [n \in 1..Len(bySession) |->
          IF bySession[n].session.cacheKey = session.cacheKey
          THEN [session |-> session, hits |-> <<hit>>]
          ELSE bySession[n]]
  ELSE Append(bySession, [session |-> session, hits |-> <<hit>>])

\* lines 146-147: the hit is appended to the hits of the session, the Map of
\* sessions keeping its insertion order
addHit(bySession, session, hit) ==
  IF \E n \in 1..Len(bySession) : bySession[n].session.cacheKey = session.cacheKey
  THEN [n \in 1..Len(bySession) |->
          IF bySession[n].session.cacheKey = session.cacheKey
          THEN [bySession[n] EXCEPT !.hits = Append(@, hit)]
          ELSE bySession[n]]
  ELSE Append(bySession, [session |-> session, hits |-> <<hit>>])

\* lines 159-162: the sessions with hits, newest first (a stable sort)
RECURSIVE insertSession(_, _)
insertSession(list, x) ==
  IF list = <<>> THEN <<x>>
  ELSE IF newerFirst(x.session, Head(list).session) THEN <<x>> \o list
  ELSE <<Head(list)>> \o insertSession(Tail(list), x)

RECURSIVE sortSessions(_)
sortSessions(list) ==
  IF list = <<>> THEN <<>>
  ELSE insertSession(sortSessions(SubSeq(list, 1, Len(list) - 1)), list[Len(list)])

(***************************************************************************)
(* The filters of the History view (dateScope, runSearchFlow).             *)
(***************************************************************************)

\* the names between the separators of a path
RECURSIVE segmentsOf(_)
segmentsOf(p) ==
  IF p = <<>> THEN <<>>
  ELSE IF Head(p) = "/" THEN segmentsOf(Tail(p))
  ELSE <<Head(p)>> \o segmentsOf(Tail(p))

\* normalizeString of path.posix: "." is dropped, ".." takes back a name
RECURSIVE resolveDots(_, _, _)
resolveDots(segs, out, absolute) ==
  IF segs = <<>> THEN out
  ELSE IF Head(segs) = "." THEN resolveDots(Tail(segs), out, absolute)
  ELSE IF Head(segs) = ".."
  THEN IF out # <<>> /\ out[Len(out)] # ".."
       THEN resolveDots(Tail(segs), SubSeq(out, 1, Len(out) - 1), absolute)
       ELSE IF absolute THEN resolveDots(Tail(segs), out, absolute)
       ELSE resolveDots(Tail(segs), Append(out, ".."), absolute)
  ELSE resolveDots(Tail(segs), Append(out, Head(segs)), absolute)

\* Array.prototype.join("/")
RECURSIVE joinSep(_)
joinSep(segs) ==
  IF segs = <<>> THEN <<>>
  ELSE IF Len(segs) = 1 THEN segs
  ELSE <<Head(segs), "/">> \o joinSep(Tail(segs))

\* path.normalize (posix): what normalizeCacheKey makes of a path
pathNormalize(p) ==
  IF p = <<>> THEN <<".">>
  ELSE LET absolute == Head(p) = "/"
           trailing == p[Len(p)] = "/"
           body == joinSep(resolveDots(segmentsOf(p), <<>>, absolute))
       IN IF body = <<>>
          THEN (IF absolute THEN <<"/">> ELSE IF trailing THEN <<".", "/">> ELSE <<".">>)
          ELSE (IF absolute THEN <<"/">> ELSE <<>>) \o body
               \o (IF trailing THEN <<"/">> ELSE <<>>)

\* days of a month, as new Date(y, m - 1, d) rolls over
daysInMonth(y, m) ==
  IF m \in {4, 6, 9, 11} THEN 30
  ELSE IF m # 2 THEN 31
  ELSE IF (y % 4 = 0 /\ y % 100 # 0) \/ y % 400 = 0 THEN 29
  ELSE 28

isValidYyyy(s) == isDigits(s, 4)

isValidYyyyMm(s) ==
  /\ Len(s) = 7
  /\ isDigits(SubSeq(s, 1, 4), 4) /\ <<s[5]>> = Hyphen /\ isDigits(SubSeq(s, 6, 7), 2)
  /\ toNumber(SubSeq(s, 1, 4)) >= 1970 /\ toNumber(SubSeq(s, 1, 4)) <= 9999
  /\ toNumber(SubSeq(s, 6, 7)) >= 1 /\ toNumber(SubSeq(s, 6, 7)) <= 12

isValidYyyyMmDd(s) ==
  /\ Len(s) = 10
  /\ isDigits(SubSeq(s, 1, 4), 4) /\ <<s[5]>> = Hyphen /\ isDigits(SubSeq(s, 6, 7), 2)
  /\ <<s[8]>> = Hyphen /\ isDigits(SubSeq(s, 9, 10), 2)
  /\ toNumber(SubSeq(s, 1, 4)) >= 1970 /\ toNumber(SubSeq(s, 1, 4)) <= 9999
  /\ toNumber(SubSeq(s, 6, 7)) >= 1 /\ toNumber(SubSeq(s, 6, 7)) <= 12
  /\ toNumber(SubSeq(s, 9, 10)) >= 1 /\ toNumber(SubSeq(s, 9, 10)) <= 31
  /\ toNumber(SubSeq(s, 9, 10)) <= daysInMonth(toNumber(SubSeq(s, 1, 4)), toNumber(SubSeq(s, 6, 7)))

\* a DateScope as the workspace state holds it: its kind and its value
Scope(kind, value) == [kind |-> kind, value |-> value]
ScopeAll == Scope("all", <<>>)

\* sanitizeDateScope: a scope whose value is not a valid year, month or day
\* becomes All
sanitizeDateScope(scope) ==
  CASE scope.kind = "year" -> IF isValidYyyy(scope.value) THEN scope ELSE ScopeAll
    [] scope.kind = "month" -> IF isValidYyyyMm(scope.value) THEN scope ELSE ScopeAll
    [] scope.kind = "day" -> IF isValidYyyyMmDd(scope.value) THEN scope ELSE ScopeAll
    [] OTHER -> ScopeAll

\* matchScope comparing nothing but the year of a month or a day
matchScope_YearOnly(session, scope) ==
  \/ scope.kind = "all"
  \/ startsWith(session.localDate, SubSeq(scope.value, 1, 4) \o Hyphen)

\* matchScope, lines 69-83
matchScope(session, scope) ==
  CASE scope.kind = "all" -> TRUE
    [] scope.kind = "year" -> startsWith(session.localDate, scope.value \o Hyphen)
    [] scope.kind = "month" -> startsWith(session.localDate, scope.value \o Hyphen)
    [] scope.kind = "day" -> session.localDate = scope.value
    [] OTHER -> TRUE

\* line 33: the project filter, null when it is not a string or is blank
projectOf(projectCwd) ==
  IF projectCwd.isNull \/ normalizeWhitespace(projectCwd.value) = <<>> THEN Null
  ELSE Some(normalizeWhitespace(projectCwd.value))

\* matchProject, lines 85-90
matchProject(session, project) ==
  IF project.isNull THEN TRUE
  ELSE LET cwd == IF session.meta.cwd.isString
                  THEN normalizeWhitespace(session.meta.cwd.parts) ELSE <<>>
       IN IF cwd = <<>> THEN FALSE
          ELSE pathNormalize(cwd) = pathNormalize(project.value)

\* the index the flow filters, were it read from the service again
indexFiltered_Current(handedIn, current) == current

\* line 34: `index` is the parameter of runSearchFlow, the object the command
\* took from historyService.getIndex() (extension.ts:552), not the index the
\* service holds when the query has been typed
indexFiltered(handedIn, current) == handedIn

\* line 34: the candidates are the sessions of the index handed in that pass
\* both filters
candidatesOf(idx, scope, project) ==
  SelectSeq(idx.sessions, LAMBDA s : matchScope(s, scope) /\ matchProject(s, project))

(***************************************************************************)
(* The search command: runSearchFlow and searchSessions, one action per    *)
(* stretch between two awaits.                                             *)
(***************************************************************************)

\* a file or a line is left for the search to process
WorkLeft ==
  \/ s_pc = "file" /\ s_loc.i <= Len(s_loc.sessions)
  \/ /\ s_pc = "line"
     /\ \/ s_loc.i < Len(s_loc.sessions)
        \/ /\ s_loc.pos < Len(FileLines(s_loc.sessions[s_loc.i].fsPath))
           /\ (s_loc.pos > 0 \/ Openable(s_loc.sessions[s_loc.i].fsPath))

\* codexHistoryViewer.search (extension.ts:550-554) takes the index of the
\* service and calls runSearchFlow with the filters of the History view;
\* lines 21-30: without sessions the flow ends, else the input box is shown
SearchCommand(scope, projectCwd) ==
  /\ s_pc = "idle"
  /\ s_loc' = [NoSearchLocals EXCEPT !.index = index,
                                     !.scope = sanitizeDateScope(scope),
                                     !.project = projectOf(projectCwd)]
  /\ s_pc' = IF Len(index.sessions) = 0 THEN "done" ELSE "input"
  /\ UNCHANGED <<token, s_result, s_hist>>
  /\ UNCHANGED <<envVars, refreshVars, <<p_pc, p_loc>>, <<pins, chat, tree, walked, parked, view, del>>>>

\* line 31: the input box is dismissed, the flow ends
SearchDismissed ==
  /\ s_pc = "input"
  /\ s_pc' = "done"
  /\ UNCHANGED <<token, s_loc, s_result, s_hist>>
  /\ UNCHANGED <<envVars, refreshVars, <<p_pc, p_loc>>, <<pins, chat, tree, walked, parked, view, del>>>>

\* lines 31-47: a query is typed; the candidates are filtered out of the
\* index handed in and searchSessions is called (lines 100-106)
SearchBegin(query, maxResults, caseSensitive) ==
  /\ s_pc = "input"
  /\ s_loc' = [s_loc EXCEPT !.sessions = candidatesOf(indexFiltered(s_loc.index, index),
                                                      s_loc.scope, s_loc.project),
                            !.query = query,
                            !.maxResults = maxResults,
                            !.caseSensitive = caseSensitive]
  /\ s_pc' = "file"
  /\ s_hist' = [s_hist EXCEPT
                  !.cancelledAtStart = token,
                  !.cancelWithWork =
                     token /\ Len(candidatesOf(indexFiltered(s_loc.index, index),
                                                s_loc.scope, s_loc.project)) > 0]
  /\ UNCHANGED <<token, s_result>>
  /\ UNCHANGED <<envVars, refreshVars, <<p_pc, p_loc>>, <<pins, chat, tree, walked, parked, view, del>>>>

\* lines 107-115 and 157-165: the loop head.  After the last candidate the
\* sessions are sorted and the result returned, and the command puts it in
\* the search view (part_003:52-66, extension.ts:555-556, searchTree.ts:46-50);
\* otherwise the token is checked, progress reported and the read stream of
\* sessions[i] created.
SearchFileStart ==
  /\ s_pc = "file"
  /\ IF s_loc.i > Len(s_loc.sessions)
     THEN /\ s_result' = Some([totalHits |-> s_loc.totalHits,
                               sessions |-> sortSessions(s_loc.bySession)])
          /\ view' = [view EXCEPT !.root = s_result']
          /\ s_pc' = "returned"
          /\ UNCHANGED <<s_loc, s_hist>>
     ELSE IF abortsBeforeFile(token)
     THEN /\ s_result' = Null
          /\ s_pc' = "returned"
          /\ UNCHANGED <<s_loc, s_hist, view>>
     ELSE /\ s_loc' = [s_loc EXCEPT !.pos = 0, !.msgIndex = 0]
          /\ s_hist' = [s_hist EXCEPT !.opened = @ \cup {s_loc.sessions[s_loc.i].fsPath}]
          /\ s_pc' = "line"
          /\ UNCHANGED <<s_result, view>>
  /\ token' = token
  /\ UNCHANGED <<envVars, refreshVars, <<p_pc, p_loc>>, <<pins, chat, tree, walked, parked, del>>>>

\* lines 117-154: the stream hands over its next line, its end or its error.
\* A file that cannot be opened makes the iteration throw; nothing catches
\* it, so searchSessions rejects.
SearchLine ==
  /\ s_pc = "line"
  /\ LET session == s_loc.sessions[s_loc.i]
         lines == FileLines(session.fsPath)
         nextFile == [s_loc EXCEPT !.i = s_loc.i + 1]
     IN IF s_loc.pos = 0 /\ ~Openable(session.fsPath)
        THEN /\ s_pc' = "raised"
             /\ UNCHANGED <<s_loc, s_result>>
        ELSE IF s_loc.pos >= Len(lines)
        THEN /\ s_loc' = nextFile
             /\ s_pc' = "file"
             /\ s_result' = s_result
        ELSE LET line == lines[s_loc.pos + 1]
                 at == hitAt(line, s_loc.query, s_loc.caseSensitive)
                 msgIndex == s_loc.msgIndex + 1
                 hit == [messageIndex |-> msgIndex, role |-> line.role]
             IN IF abortsBeforeLine(token)
                THEN /\ s_result' = Null
                     /\ s_pc' = "returned"
                     /\ s_loc' = s_loc
                ELSE IF capReached(s_loc.totalHits, s_loc.maxResults)
                THEN /\ s_loc' = nextFile
                     /\ s_pc' = "file"
                     /\ s_result' = s_result
                ELSE IF ~isSearchable(line)
                THEN /\ s_loc' = [s_loc EXCEPT !.pos = @ + 1]
                     /\ UNCHANGED <<s_pc, s_result>>
                ELSE IF at < 0
                THEN /\ s_loc' = [s_loc EXCEPT !.pos = @ + 1, !.msgIndex = msgIndex]
                     /\ UNCHANGED <<s_pc, s_result>>
                ELSE IF capReached(s_loc.totalHits + 1, s_loc.maxResults)
                THEN /\ s_loc' = [s_loc EXCEPT !.pos = @ + 1, !.msgIndex = msgIndex,
                                               !.bySession = addHit(@, session, hit),
                                               !.totalHits = @ + 1,
                                               !.i = @ + 1]
                     /\ s_pc' = "file"
                     /\ s_result' = s_result
                ELSE /\ s_loc' = [s_loc EXCEPT !.pos = @ + 1, !.msgIndex = msgIndex,
                                               !.bySession = addHit(@, session, hit),
                                               !.totalHits = @ + 1]
                     /\ UNCHANGED <<s_pc, s_result>>
  /\ UNCHANGED <<token, s_hist>>
  /\ UNCHANGED <<envVars, refreshVars, <<p_pc, p_loc>>, <<pins, chat, tree, walked, parked, view, del>>>>

\* the user presses Cancel in the progress notification (or the token handed
\* to searchSessions is cancelled already)
Cancel ==
  /\ ~token
  /\ s_pc \in {"idle", "file", "line"}
  /\ token' = TRUE
  /\ s_hist' = [s_hist EXCEPT !.cancelWithWork = WorkLeft]
  /\ UNCHANGED <<s_pc, s_loc, s_result>>
  /\ UNCHANGED <<envVars, refreshVars, <<p_pc, p_loc>>, <<pins, chat, tree, walked, parked, view, del>>>>

InitSearch ==
  /\ InitSearchIdle
  /\ p_pc = "idle"
  /\ p_loc = [session |-> "f1", sessionsRoot |-> "r1", dest |-> "p1", deltaKnown |-> FALSE,
               promoted |-> Null]
  /\ tree = [exists |-> FALSE, list |-> EmptyMap]
  /\ walked = Null
  \* rollout-2.jsonl is a session of May 2024 or of the year 10000
  /\ \E gone \in SUBSET InitiallyOptional,
        start \in {Instant(At(2024, 5, 1, 10, 0), At(2024, 5, 2, 0, 0)),
                   Instant(At(10000, 1, 1, 8, 0), At(10000, 1, 1, 22, 0))} :
       /\ disk = [f \in AllFiles |->
                    [exists |-> f \in Files \ gone, mtime |-> 1, size |-> 1,
                     readable |-> TRUE, tmp |-> FALSE]]
       /\ logs = [f \in AllFiles |->
                    IF f = "f2"
                    THEN <<SessionMeta(start, Cwd(<<"/", "other">>))>> \o Tail(InitialLines(f))
                    ELSE InitialLines(f)]
  /\ dirs = [d \in Dirs |-> [exists |-> d = "d1", listable |-> TRUE]]
  /\ rootExists = [x \in Roots |-> TRUE]
  /\ dateTime = "tzB"
  /\ config = [sessionsRoot |-> "r1", previewMaxMessages |-> 1]
  \* the index the search command finds in the service
  /\ index = buildIndex("r1",
        sortSummaries([n \in 1..2 |->
          LET f == <<"f1", "f2">>[n]
          IN SummaryOf(f, DirOf[f] \o <<BaseName[f]>>, logs[f], 1, "tzB",
                       [mtimeMs |-> 1, size |-> 1], [mtimeMs |-> 1, size |-> 1])]))
  /\ cacheFile = Missing
  /\ pc = "idle"
  /\ r = NoLocals
  /\ outcome = "none"
  /\ envSteps = 0
  /\ hist = NoHist

NextSearch ==
  \* the date filters and the project filters the History view can hold
  \/ \E scope \in {ScopeAll,
                    Scope("year", toString(2024)),
                    Scope("year", toString(2023)),
                    Scope("month", toString(2024) \o Hyphen \o pad2(5)),
                    Scope("day", toString(2024) \o Hyphen \o pad2(5) \o Hyphen \o pad2(1)),
                    Scope("day", toString(2024) \o Hyphen \o pad2(2) \o Hyphen \o pad2(30))},
        projectCwd \in {Null,
                         Some(<<" ">>),
                         Some(<<"/", "proj">>),
                         Some(<<" ", "/", "other", "/", "..", "/", "proj", " ">>)} :
       SearchCommand(scope, projectCwd)
  \/ SearchDismissed
  \/ \E query \in Queries, maxResults \in 1..MaxSearchResults, caseSensitive \in BOOLEAN :
       SearchBegin(query, maxResults, caseSensitive)
  \/ SearchFileStart
  \/ SearchLine
  \/ Cancel
  \/ \E f \in Files : FileRemoved(f)
  \/ \E f \in Files : FileRestored(f)
  \/ \E f \in Files : FileChmod(f)

SpecSearch == InitSearch /\ [][NextSearch]_vars

(***************************************************************************)
(* The promote command: promoteSessionCopyToToday, one action per stretch  *)
(* between two awaits.                                                     *)
(***************************************************************************)

\* new Date() of the promote command: noon of 2024-05-02 in zone A
Now == Instant(At(2024, 5, 2, 12, 0), At(2024, 5, 2, 14, 0))

\* the directory path.join(sessionsRoot, yyyy, mm, dd) of today
TodayDir == CHOOSE d \in Dirs : DirParts[d] = <<toString(Now.local["tzA"].year),
                                               pad2(Now.local["tzA"].month),
                                               pad2(Now.local["tzA"].day)>>

\* destPath naming the source file itself
destPath_Source(session) == session

\* lines 217-224: destPath is a file of today's directory named after a
\* fresh crypto.randomUUID()
destPath(session) == CHOOSE c \in Copies : DirOf[c] = DirParts[TodayDir]

\* copyAndShiftJsonl, lines 268-292: blank lines and lines that are not JSON
\* are copied, a session_meta line gets the new start as its timestamp
copyAndShiftJsonl(lines) ==
  [n \in 1..Len(lines) |->
     IF lines[n].raw = "json" /\ lines[n].type = "session_meta"
     THEN [lines[n] EXCEPT !.ts = Now]
     ELSE lines[n]]

\* codexHistoryViewer.promoteSession for one session of the view, confirmed
\* with OK: promoteSessionCopyToToday lines 210-218, up to the await of
\* createDirectory
PromoteBegin(n) ==
  /\ p_pc = "idle"
  /\ n \in 1..Len(index.sessions)
  /\ p_loc' = [[session |-> "f1", sessionsRoot |-> "r1", dest |-> "p1", deltaKnown |-> FALSE, promoted |-> Null] EXCEPT !.session = index.sessions[n].fsPath,
                                      !.sessionsRoot = index.sessionsRoot,
                                      !.dest = destPath(index.sessions[n].fsPath)]
  /\ p_pc' = "mkdir"
  /\ UNCHANGED <<disk, logs, dirs, rootExists>>
  /\ UNCHANGED <<refreshVars, searchVars, <<pins, chat, tree, walked, parked, view, del>>, dateTime, config, envSteps>>

\* lines 218-228: createDirectory has made today's directory (and its
\* parents); tryReadSessionMeta is called
PromoteMkdir ==
  /\ p_pc = "mkdir"
  /\ dirs' = [dirs EXCEPT ![TodayDir].exists = TRUE]
  /\ rootExists' = [rootExists EXCEPT ![p_loc.sessionsRoot] = TRUE]
  /\ p_pc' = "meta"
  /\ UNCHANGED <<disk, logs, p_loc>>
  /\ UNCHANGED <<refreshVars, searchVars, <<pins, chat, tree, walked, parked, view, del>>, dateTime, config, envSteps>>

\* lines 228-239: tryReadSessionMeta answers (fs.open is not guarded) and the
\* delta is computed; copyAndShiftJsonl is called
PromoteMeta ==
  /\ p_pc = "meta"
  /\ IF ~Openable(p_loc.session)
     THEN /\ p_pc' = "raised"
          /\ p_loc' = p_loc
     ELSE /\ p_pc' = "copy"
          /\ p_loc' =
               [p_loc EXCEPT !.deltaKnown =
                  LET read == tryReadSessionMeta(FileLines(p_loc.session))
                  IN ~read.isNull /\ read.value.timestampIso.kind = "instant"]
  /\ UNCHANGED <<disk, logs, dirs, rootExists>>
  /\ UNCHANGED <<refreshVars, searchVars, <<pins, chat, tree, walked, parked, view, del>>, dateTime, config, envSteps>>

\* copyAndShiftJsonl: the write stream creates `<destPath>.tmp`, the lines of
\* the source are read and written; a source that cannot be read leaves an
\* empty temporary file and rejects
PromoteCopy ==
  /\ p_pc = "copy"
  /\ disk' = [disk EXCEPT ![p_loc.dest] =
                [exists |-> TRUE, mtime |-> 2, size |-> 1, readable |-> TRUE, tmp |-> TRUE]]
  /\ IF ~Openable(p_loc.session)
     THEN /\ logs' = [logs EXCEPT ![p_loc.dest] = <<>>]
          /\ p_pc' = "raised"
     ELSE /\ logs' = [logs EXCEPT ![p_loc.dest] = copyAndShiftJsonl(FileLines(p_loc.session))]
          /\ p_pc' = "rename"
  /\ UNCHANGED <<dirs, rootExists, p_loc>>
  /\ UNCHANGED <<refreshVars, searchVars, <<pins, chat, tree, walked, parked, view, del>>, dateTime, config, envSteps>>

\* line 241: fsp.rename(tempPath, destPath)
PromoteRename ==
  /\ p_pc = "rename"
  /\ disk' = [disk EXCEPT ![p_loc.dest].tmp = FALSE]
  /\ p_pc' = "utimes"
  /\ UNCHANGED <<logs, dirs, rootExists, p_loc>>
  /\ UNCHANGED <<refreshVars, searchVars, <<pins, chat, tree, walked, parked, view, del>>, dateTime, config, envSteps>>

\* line 242: fsp.utimes(destPath, now, now)
PromoteUtimes ==
  /\ p_pc = "utimes"
  /\ disk' = [disk EXCEPT ![p_loc.dest].mtime = 2]
  /\ p_pc' = "summary"
  /\ UNCHANGED <<logs, dirs, rootExists, p_loc>>
  /\ UNCHANGED <<refreshVars, searchVars, <<pins, chat, tree, walked, parked, view, del>>, dateTime, config, envSteps>>

\* lines 244-251: buildSessionSummary(destPath) ?? session
PromoteSummary ==
  /\ p_pc = "summary"
  /\ IF ~Present(p_loc.dest)
     THEN /\ p_pc' = "done"
          /\ p_loc' = [p_loc EXCEPT !.promoted = Some(p_loc.session)]
     ELSE IF ~Openable(p_loc.dest)
     THEN /\ p_pc' = "raised"
          /\ p_loc' = p_loc
     ELSE /\ p_pc' = "done"
          /\ p_loc' = [p_loc EXCEPT !.promoted = Some(p_loc.dest)]
  /\ UNCHANGED <<disk, logs, dirs, rootExists>>
  /\ UNCHANGED <<refreshVars, searchVars, <<pins, chat, tree, walked, parked, view, del>>, dateTime, config, envSteps>>

(***************************************************************************)
(* SpecIndex: refresh over log files of every kind.                        *)
(***************************************************************************)
\* Timestamps: the payload.timestamp values of a session_meta line: absent,
\* not a date, and instants of the years 2024, 2023, 99, 10000 and -1.
\* FirstLines: the ways a log file can begin.  LaterLines: the lines after
\* the first.  The preview limit is any of PreviewLimits.
InitIndex ==
  LET Timestamps ==
        {[kind |-> "absent"], [kind |-> "invalid"],
         Instant(At(2024, 5, 1, 10, 0), At(2024, 5, 2, 0, 0)),
         Instant(At(2023, 12, 31, 23, 30), At(2024, 1, 1, 13, 30)),
         Instant(At(99, 5, 1, 10, 0), At(99, 5, 2, 0, 0)),
         Instant(At(10000, 1, 1, 8, 0), At(10000, 1, 1, 22, 0)),
         Instant(At(0 - 1, 6, 1, 8, 0), At(0 - 1, 6, 1, 22, 0))}
      FirstLines ==
        {<<>>, <<BlankLine>>, <<BadLine>>, <<Msg("user", <<"a">>)>>}
        \cup {<<SessionMeta(ts, Cwd(<<"/", "proj">>))>> : ts \in Timestamps}
      LaterLines == <<Msg("user", <<"a", "b">>), BadLine, Msg("assistant", <<"b">>)>>
      \* conversations: a plain one; one that opens with a boilerplate block,
      \* a tool call, an empty message and a developer message; one that opens
      \* with a title prompt; one whose messages carry a request marker
      Conversations ==
        {LaterLines,
         <<Msg("user", <<" ", "<environment_context>", "a">>), CallLine,
           Msg("user", <<" ", " ">>), Msg("developer", <<"a">>),
           Msg("assistant", <<"b">>), BlankLine, Msg("user", <<"a", " ", " ", "b">>)>>,
         <<Msg("user", <<"Generate a concise UI title", "a">>),
           Msg("assistant", <<" ", "b">>), Msg("user", <<"a">>)>>,
         <<Msg("user", <<"<environment_context>", "My request for Codex:", " ", "b">>),
           Msg("user", <<"My request for Codex:", "<INSTRUCTIONS>">>),
           Msg("assistant", <<"a">>)>>}
  IN
  /\ InitSearchIdle
  /\ p_pc = "idle"
  /\ p_loc = [session |-> "f1", sessionsRoot |-> "r1", dest |-> "p1", deltaKnown |-> FALSE,
               promoted |-> Null]
  /\ tree = [exists |-> FALSE, list |-> EmptyMap]
  /\ walked = Null
  /\ \E first1 \in {<<MetaLine>>, <<BadLine>>}, first2 \in FirstLines, m \in Mtimes,
        readable \in BOOLEAN, later1 \in Conversations :
       /\ disk = [f \in AllFiles |->
                    [exists |-> f \in Files, mtime |-> IF f = "f2" THEN m ELSE 1, size |-> 1,
                     readable |-> (f = "f2" => readable), tmp |-> FALSE]]
       /\ logs = [f \in AllFiles |->
                    CASE f = "f1" -> first1 \o later1
                      [] f = "f2" -> first2 \o (IF first2 = <<>> THEN <<>> ELSE LaterLines)
                      [] OTHER -> InitialLines(f)]
  /\ dirs = [d \in Dirs |-> [exists |-> d = "d1", listable |-> TRUE]]
  /\ rootExists = [x \in Roots |-> TRUE]
  /\ dateTime \in DateTimes
  /\ \E pm \in PreviewLimits : config = [sessionsRoot |-> "r1", previewMaxMessages |-> pm]
  /\ InitService
  /\ cacheFile = Missing
  /\ envSteps = 0

NextIndex ==
  \/ \E force \in BOOLEAN : RefreshBegin(force)
  \/ RefreshLoadCache
  \/ RefreshDiscover
  \/ RefreshStat
  \/ ExtractStat
  \/ ExtractRead
  \/ RefreshFinish
  \/ RefreshWrite

SpecIndex == InitIndex /\ [][NextIndex]_vars

(***************************************************************************)
(* SpecWalk: findSessionFiles over directory trees.                        *)
(***************************************************************************)
\* deepest directory of the trees looked at
MaxDepth == 3

\* WalkNames: names of directory entries: a rollout file, the same without
\* its suffix, without its prefix, and with `.tmp` appended.
\* Trees: the root holds the directory 2024, a directory named like a
\* rollout file and one more entry; 2024 cannot be listed or holds the
\* directory 05 and an entry; 05 cannot be listed or holds a rollout file.
InitWalk ==
  LET WalkNames ==
        {RolloutName(1), RolloutPrefix \o toString(1), toString(1) \o JsonlSuffix,
         RolloutName(1) \o <<46, 116, 109, 112>>}
      WalkEntries == {Entry(n, t) : n \in WalkNames, t \in {"file", "other"}}
      Trees ==
        {[exists |-> ex,
          list |->
            [dir \in {<<>>, <<toString(2024)>>, <<RolloutName(2)>>,
                      <<toString(2024), pad2(5)>>} |->
               CASE dir = <<>> ->
                      Some(<<Entry(toString(2024), "dir"), e1, Entry(RolloutName(2), "dir")>>)
                 [] dir = <<toString(2024)>> -> sub
                 [] dir = <<RolloutName(2)>> -> Some(<<Entry(RolloutName(1), "file")>>)
                 [] OTHER -> deep]] :
           ex \in BOOLEAN, e1 \in WalkEntries,
           sub \in {Null} \cup {Some(<<e2, Entry(pad2(5), "dir")>>) : e2 \in WalkEntries},
           deep \in {Null, Some(<<Entry(RolloutName(3), "file")>>)}}
  IN
  /\ InitSearchIdle
  /\ p_pc = "idle"
  /\ p_loc = [session |-> "f1", sessionsRoot |-> "r1", dest |-> "p1", deltaKnown |-> FALSE,
               promoted |-> Null]
  /\ \E gone \in SUBSET InitiallyOptional : InitDisk(gone)
  /\ dateTime = "tzA"
  /\ config = [sessionsRoot |-> "r1", previewMaxMessages |-> 1]
  /\ InitService
  /\ cacheFile = Missing
  /\ envSteps = 0
  /\ tree \in Trees
  /\ walked = Null

\* findSessionFiles(root) is called and answers
Walk ==
  /\ walked.isNull
  /\ walked' = Some(findSessionFilesIn(tree))
  /\ UNCHANGED <<tree, envVars, refreshVars, searchVars, <<p_pc, p_loc>>, parked, view, del,
               pins, chat>>

NextWalk == Walk

SpecWalk == InitWalk /\ [][NextWalk]_vars

(***************************************************************************)
(* SpecApp: the refresh, search and promote commands interleaved.          *)
(***************************************************************************)
InitApp ==
  /\ InitSearchIdle
  /\ p_pc = "idle"
  /\ p_loc = [session |-> "f1", sessionsRoot |-> "r1", dest |-> "p1", deltaKnown |-> FALSE,
               promoted |-> Null]
  /\ tree = [exists |-> FALSE, list |-> EmptyMap]
  /\ walked = Null
  /\ InitDisk({})
  /\ dateTime = "tzB"
  /\ config = [sessionsRoot |-> "r1", previewMaxMessages |-> 1]
  /\ InitService
  /\ cacheFile = Missing
  /\ envSteps = 0

NextApp ==
  \/ RefreshBegin(FALSE)
  \/ RefreshLoadCache
  \/ RefreshDiscover
  \/ RefreshStat
  \/ ExtractStat
  \/ ExtractRead
  \/ RefreshFinish
  \/ RefreshWrite
  \/ SearchCommand(ScopeAll, Null)
  \/ SearchBegin(<<"b">>, MaxSearchResults, FALSE)
  \/ SearchFileStart
  \/ SearchLine
  \/ \E n \in 1..2 : PromoteBegin(n)
  \/ PromoteMkdir
  \/ PromoteMeta
  \/ PromoteCopy
  \/ PromoteRename
  \/ PromoteUtimes
  \/ PromoteSummary

SpecApp == InitApp /\ [][NextApp]_vars

(***************************************************************************)
(* Properties of refresh and of the cache.                                 *)
(***************************************************************************)
\* the refresh in flight, or the last one, got as far as reading the cache
PastLoad == pc \in {"discover", "stat", "xstat", "xread", "write"}
              \/ (pc = "idle" /\ outcome \in {"returned", "raised"})

\* the five header fields of the document equal the values refresh compared
\* them with
HeaderIsCurrent(doc) ==
  /\ doc.version = 4
  /\ doc.summaryAlgoVersion = 3
  /\ doc.sessionsRoot = r.sessionsRoot
  /\ doc.previewMaxMessages = hist.pmAtLoad
  /\ doc.dateTimeSettingsKey = getDateTimeSettingsKey(r.dateTime)

\* the loaded document records file f with exactly the fingerprint st
RecordedUnchanged(doc, f, st) ==
  /\ normalizeCacheKey(f) \in DOMAIN doc.entries
  /\ doc.entries[normalizeCacheKey(f)].mtimeMs = st.mtimeMs
  /\ doc.entries[normalizeCacheKey(f)].size = st.size

\* the files the loop of the refresh has dealt with so far
Processed == {r.files[n] : n \in 1..(IF pc \in {"xstat", "xread"} THEN r.i ELSE r.i - 1)}

\* the refresh ended by handing back control after writing the cache
WroteCache == pc = "idle" /\ outcome = "returned" /\ ~r.nextCache.isNull

\* C1: in a refresh without forceRebuildCache whose cache, if any, carries the
\* current configuration, the Extractor is invoked for a stat-ed file exactly
\* when the cache holds no entry under its key or the recorded mtime or size
\* differs from the current one; a file with unchanged mtime and size keeps
\* the stored entry and summary, and the Extractor is not invoked for it.
C1_ExtractorIffChanged ==
  (/\ PastLoad
   /\ ~r.force
   /\ (hist.loaded.isNull \/ HeaderIsCurrent(hist.loaded.value)))
  => /\ hist.invoked \subseteq DOMAIN hist.stated
     /\ \A f \in DOMAIN hist.stated :
          LET unchanged == /\ ~hist.loaded.isNull
                           /\ RecordedUnchanged(hist.loaded.value, f, hist.stated[f])
          IN /\ (f \in hist.invoked) <=> ~unchanged
             /\ unchanged =>
                  /\ normalizeCacheKey(f) \in DOMAIN r.nextEntries
                  /\ r.nextEntries[normalizeCacheKey(f)] =
                       hist.loaded.value.entries[normalizeCacheKey(f)]

\* a second refresh reused one file and re-extracted another whose mtime or
\* size had changed since the cache was written
C1_Witness ==
  /\ WroteCache
  /\ ~r.force
  /\ ~hist.loaded.isNull
  /\ HeaderIsCurrent(hist.loaded.value)
  /\ \E f, g \in DOMAIN hist.stated :
       /\ f \notin hist.invoked
       /\ g \in hist.invoked
       /\ normalizeCacheKey(g) \in DOMAIN hist.loaded.value.entries

\* C2: when the loaded cache is null or any of its five header fields differs
\* from the current run's value, no entry is trusted: the Extractor is invoked
\* for every stat-ed file, and every summary collected, and every summary of
\* the index the refresh installs, was computed in this refresh.
C2_StaleHeaderMeansEmpty ==
  (/\ PastLoad
   /\ (hist.loaded.isNull \/ ~HeaderIsCurrent(hist.loaded.value)))
  => /\ r.cachedEntries = EmptyMap
     /\ DOMAIN hist.stated \subseteq hist.invoked
     /\ \A n \in 1..Len(r.summaries) :
          /\ r.summaries[n].cacheKey \in DOMAIN hist.computed
          /\ r.summaries[n] = hist.computed[r.summaries[n].cacheKey]
     /\ (pc = "write" \/ WroteCache) =>
          \A n \in 1..Len(index.sessions) :
            /\ index.sessions[n].cacheKey \in DOMAIN hist.computed
            /\ index.sessions[n] = hist.computed[index.sessions[n].cacheKey]

\* a refresh found a cache whose only stale header field is the preview
\* limit, with an entry matching the fingerprint of a file, and summarized
\* the file again
C2_Witness ==
  /\ WroteCache
  /\ ~hist.loaded.isNull
  /\ hist.loaded.value.version = 4
  /\ hist.loaded.value.summaryAlgoVersion = 3
  /\ hist.loaded.value.sessionsRoot = r.sessionsRoot
  /\ hist.loaded.value.dateTimeSettingsKey = getDateTimeSettingsKey(r.dateTime)
  /\ hist.loaded.value.previewMaxMessages # hist.pmAtLoad
  /\ \E f \in DOMAIN hist.stated :
       /\ RecordedUnchanged(hist.loaded.value, f, hist.stated[f])
       /\ f \in hist.invoked
       /\ Len(index.sessions) > 0

\* C3: a write of the cache that fails or is interrupted leaves the previously
\* stored cache document as it was.
C3_FailedWriteKeepsOldCache ==
  [][(pc = "write" /\ cacheFile.kind = "json" /\ outcome' = "raised")
       => cacheFile' = cacheFile]_vars

\* C4: refresh does not raise because of one log file: a refresh that raised
\* had reached the write of the cache.
C4_BadFileIsSkipped ==
  (pc = "idle" /\ outcome = "raised") => ~r.nextCache.isNull

\* C9: the cache a refresh wrote has an entry under a key only for a file that
\* was discovered, stat-ed and summarized in that refresh.
C9_OnlyDiscoveredEntries ==
  WroteCache =>
    /\ cacheFile.kind = "json"
    /\ \A k \in DOMAIN cacheFile.data.entries :
         \E f \in SeqToSet(r.files) :
           /\ normalizeCacheKey(f) = k
           /\ f \in DOMAIN hist.stated
           /\ \E n \in 1..Len(r.summaries) :
                r.summaries[n] = cacheFile.data.entries[k].summary

\* a refresh trusted a cache holding an entry for a file that was no longer
\* discovered, and the cache it wrote has no entry under that key
C9_Witness ==
  /\ WroteCache
  /\ \E k \in DOMAIN r.cachedEntries :
       /\ k \notin DOMAIN cacheFile.data.entries
       /\ k \notin {normalizeCacheKey(f) : f \in SeqToSet(r.files)}

\* C10: under forceRebuildCache no entry of the existing cache is used: the
\* Extractor is invoked for every stat-ed file and every entry of the cache
\* document the refresh writes holds a summary computed in this refresh.
C10_ForceBypassesCache ==
  (PastLoad /\ r.force) =>
    /\ r.cachedEntries = EmptyMap
    /\ DOMAIN hist.stated \subseteq hist.invoked
    /\ \A k \in DOMAIN r.nextEntries :
         /\ k \in DOMAIN hist.computed
         /\ r.nextEntries[k].summary = hist.computed[k]
    /\ ~r.nextCache.isNull => r.nextCache.value.entries = r.nextEntries

\* a forced refresh is about to overwrite a cache file that carries the
\* current configuration and an entry matching a file it summarized again
C10_Witness ==
  /\ pc = "write"
  /\ r.force
  /\ cacheFile.kind = "json"
  /\ HeaderIsCurrent(cacheFile.data)
  /\ \E f \in DOMAIN hist.stated :
       /\ RecordedUnchanged(cacheFile.data, f, hist.stated[f])
       /\ normalizeCacheKey(f) \in DOMAIN r.nextCache.value.entries

\* C11: reading a cache file that is missing, unreadable or not valid JSON
\* yields null without raising, and the refresh goes on as with an empty
\* cache: no entry is trusted, the Extractor is invoked for every stat-ed
\* file and every entry of the next cache was computed in this refresh.
C11_UnusableCacheReadsAsNull ==
  (PastLoad /\ ~r.force /\ hist.fileAtLoad \in {"missing", "unreadable", "corrupt"})
  => /\ hist.loaded.isNull
     /\ r.cachedEntries = EmptyMap
     /\ DOMAIN hist.stated \subseteq hist.invoked
     /\ \A k \in DOMAIN r.nextEntries :
          /\ k \in DOMAIN hist.computed
          /\ r.nextEntries[k].summary = hist.computed[k]

\* a refresh found the bytes an interrupted write had left in cache.v4.json,
\* summarized a file and wrote a fresh cache
C11_Witness ==
  /\ WroteCache
  /\ ~r.force
  /\ hist.fileAtLoad = "corrupt"
  /\ hist.invoked # {}
  /\ cacheFile.kind = "json"

(***************************************************************************)
(* Properties of the search.                                               *)
(***************************************************************************)
\* the number of user/assistant messages of file f that contain the query
MatchesIn(f, query, caseSensitive) ==
  Cardinality({n \in 1..Len(FileLines(f)) :
                 /\ isSearchable(FileLines(f)[n])
                 /\ hitAt(FileLines(f)[n], query, caseSensitive) >= 0})

RECURSIVE TotalMatches(_, _, _)
TotalMatches(sessions, query, caseSensitive) ==
  IF sessions = <<>> THEN 0
  ELSE MatchesIn(Head(sessions).fsPath, query, caseSensitive)
       + TotalMatches(Tail(sessions), query, caseSensitive)

RECURSIVE CountHits(_)
CountHits(list) ==
  IF list = <<>> THEN 0 ELSE Len(Head(list).hits) + CountHits(Tail(list))

SearchReturnedResult == s_pc = "returned" /\ ~s_result.isNull

\* C5: a candidate file that cannot be opened or read does not make
\* searchSessions raise.
C5_UnreadableCandidateIsSkipped == s_pc # "raised"

\* C6: when the candidates hold more matching user/assistant messages than
\* maxResults, the result searchSessions returns has totalHits equal to
\* maxResults and exactly maxResults hits across its sessions.
C6_CapIsExact ==
  (/\ SearchReturnedResult
   /\ TotalMatches(s_loc.sessions, s_loc.query, s_loc.caseSensitive) > s_loc.maxResults)
  => /\ s_result.value.totalHits = s_loc.maxResults
     /\ CountHits(s_result.value.sessions) = s_loc.maxResults

\* a search with maxResults = 2 over more than two matches returned hits of
\* two sessions
C6_Witness ==
  /\ SearchReturnedResult
  /\ s_loc.maxResults = 2
  /\ TotalMatches(s_loc.sessions, s_loc.query, s_loc.caseSensitive) > 2
  /\ Len(s_result.value.sessions) = 2

C8_CancelDiscardsPartialResults ==
  /\ [](s_pc = "returned" /\ s_hist.cancelWithWork => s_result.isNull)
  /\ [][(/\ token
         /\ \/ s_pc = "file" /\ s_loc.i <= Len(s_loc.sessions)
            \/ /\ s_pc = "line"
               /\ s_loc.pos < Len(FileLines(s_loc.sessions[s_loc.i].fsPath))
               /\ (s_loc.pos > 0 \/ Openable(s_loc.sessions[s_loc.i].fsPath))
         /\ <<s_pc, s_loc, s_result>>' # <<s_pc, s_loc, s_result>>)
        => (s_pc' = "returned" /\ s_result'.isNull)]_vars

\* cancellation was requested after a hit had been recorded and while lines
\* were left, and the search returned null
C8_Witness ==
  /\ s_pc = "returned"
  /\ s_result.isNull
  /\ s_hist.cancelWithWork
  /\ ~s_hist.cancelledAtStart
  /\ s_loc.totalHits > 0

(***************************************************************************)
(* Properties of the index.                                                *)
(***************************************************************************)
\* a refresh has installed the index it built from the files it discovered
BuiltIndex == hist.installed /\ pc \in {"write", "idle"} /\ ~r.nextCache.isNull

\* the calendar order of two dates
ymdLater(a, b) ==
  \/ a.year > b.year
  \/ a.year = b.year /\ a.month > b.month
  \/ a.year = b.year /\ a.month = b.month /\ a.day > b.day

\* C12: in the index a refresh built, a session with a later display date
\* precedes one with an earlier display date, and of two sessions with the
\* same display date the one with the greater time label comes first.
C12_SortedByDisplayDate ==
  BuiltIndex =>
    \A a, b \in 1..Len(index.sessions) :
      /\ ymdLater(index.sessions[a].ymd, index.sessions[b].ymd) => a < b
      /\ (/\ index.sessions[a].ymd = index.sessions[b].ymd
          /\ strLess(index.sessions[b].timeLabel, index.sessions[a].timeLabel)) => a < b

\* the (year, month, day) keys of the buckets of byY
BucketKeys ==
  UNION {UNION {{<<y, m, d>> : d \in DOMAIN index.byY[y][m]} : m \in DOMAIN index.byY[y]} :
           y \in DOMAIN index.byY}

\* the buckets of byY that hold the summary s
BucketsOf(s) == {k \in BucketKeys : s \in SeqToSet(index.byY[k[1]][k[2]][k[3]])}

\* the summaries held by the buckets of byY
Bucketed == UNION {SeqToSet(index.byY[k[1]][k[2]][k[3]]) : k \in BucketKeys}

\* the (year, month, day) key of a display date
DateKey(ymd) == <<toString(ymd.year), pad2(ymd.month), pad2(ymd.day)>>

\* C13: in the index a refresh built, every summary of sessions is in exactly
\* one (year, month, day) bucket of byY, the one of its display date, and the
\* buckets hold no summary that is not in sessions.
C13_OneBucketPerSession ==
  BuiltIndex =>
    /\ \A n \in 1..Len(index.sessions) :
         /\ BucketsOf(index.sessions[n]) = {DateKey(index.sessions[n].ymd)}
         /\ \A k \in BucketsOf(index.sessions[n]) :
              Len(SelectSeq(index.byY[k[1]][k[2]][k[3]],
                            LAMBDA x : x = index.sessions[n])) = 1
    /\ Bucketed \subseteq SeqToSet(index.sessions)

\* C14: a refresh that runs on the directory, settings and configuration the
\* refresh before it ran on (no change of the outside world since that one
\* began) installs the index that one installed, whether it reuses cached
\* summaries or computes them again.
C14_RefreshIsIdempotent ==
  (hist.installed /\ ~hist.prev.isNull /\ hist.prev.value.since = envSteps)
  => index = hist.prev.value.index

(***************************************************************************)
(* Properties of the commands together.                                    *)
(***************************************************************************)
\* the search command is between its start and its end
SearchRunning == s_pc \in {"input", "file", "line"}

\* C15: the search works on the index the service held when the command
\* started: that index is taken once, no step (a refresh that replaces the
\* index of the service included) changes it or the candidate list while the
\* search runs, the candidates are filtered out of it, and every session of
\* the result set is one of its summaries.
C15_SearchUsesSnapshot ==
  [][/\ (s_pc = "idle" /\ s_pc' # "idle") => s_loc'.index = index
     /\ SearchRunning => s_loc'.index = s_loc.index
     /\ (s_pc \in {"file", "line"}) => s_loc'.sessions = s_loc.sessions
     /\ (s_pc = "input" /\ s_pc' = "file") =>
          s_loc'.sessions = candidatesOf(s_loc.index, s_loc.scope, s_loc.project)
     /\ (s_pc' = "returned" /\ ~s_result'.isNull) =>
          \A n \in 1..Len(s_result'.value.sessions) :
            s_result'.value.sessions[n].session \in SeqToSet(s_loc'.index.sessions)]_vars

\* a refresh that began while the search was scanning files has replaced the
\* index of the service by another one, and the search has returned sessions
C15_Witness ==
  /\ s_pc = "returned"
  /\ ~s_result.isNull
  /\ Len(s_result.value.sessions) > 0
  /\ hist.installed
  /\ hist.searchAt \in {"file", "line"}
  /\ index # s_loc.index

(***************************************************************************)
(* Properties of the filters of the search.                                *)
(***************************************************************************)
\* the display date lies in the year, month or day of the scope
InScope(ymd, scope) ==
  CASE scope.kind = "year" -> ymd.year = toNumber(scope.value)
    [] scope.kind = "month" ->
         /\ ymd.year = toNumber(SubSeq(scope.value, 1, 4))
         /\ ymd.month = toNumber(SubSeq(scope.value, 6, 7))
    [] scope.kind = "day" ->
         /\ ymd.year = toNumber(SubSeq(scope.value, 1, 4))
         /\ ymd.month = toNumber(SubSeq(scope.value, 6, 7))
         /\ ymd.day = toNumber(SubSeq(scope.value, 9, 10))
    [] OTHER -> TRUE

\* the session was started in the directory of the project filter
InProject(session, project) ==
  \/ project.isNull
  \/ /\ session.meta.cwd.isString
     /\ pathNormalize(normalizeWhitespace(session.meta.cwd.parts))
          = pathNormalize(project.value)

\* C16: the search opens, and returns, only sessions of the index handed in
\* whose display date lies in the active date scope and, when a project
\* filter is set, whose cwd is that of the filter (as trimmed and normalized
\* paths); a session without cwd passes no project filter.
C16_OnlyFilteredSessionsSearched ==
  /\ \A f \in s_hist.opened :
       \E s \in SeqToSet(s_loc.index.sessions) :
         /\ s.fsPath = f
         /\ InScope(s.ymd, s_loc.scope)
         /\ InProject(s, s_loc.project)
  /\ (s_pc = "returned" /\ ~s_result.isNull) =>
       \A n \in 1..Len(s_result.value.sessions) :
         /\ s_result.value.sessions[n].session \in SeqToSet(s_loc.index.sessions)
         /\ InScope(s_result.value.sessions[n].session.ymd, s_loc.scope)
         /\ InProject(s_result.value.sessions[n].session, s_loc.project)

\* a search with a day scope and a project filter written other than the cwd
\* of the sessions has returned hits, and a session of the index that holds
\* the query was left unopened
C16_Witness ==
  /\ s_pc = "returned"
  /\ ~s_result.isNull
  /\ Len(s_result.value.sessions) > 0
  /\ s_loc.scope.kind = "day"
  /\ ~s_loc.project.isNull
  /\ s_loc.project.value # <<"/", "proj">>
  /\ \E s \in SeqToSet(s_loc.index.sessions) :
       /\ s.fsPath \notin s_hist.opened
       /\ \E n \in 1..Len(FileLines(s.fsPath)) :
            /\ isSearchable(FileLines(s.fsPath)[n])
            /\ hitAt(FileLines(s.fsPath)[n], s_loc.query, s_loc.caseSensitive) >= 0

(***************************************************************************)
(* Properties of findSessionFiles.                                         *)
(***************************************************************************)
\* the directories of the tree reached from the root through directories
\* that can be listed, down to depth n
RECURSIVE reached(_, _)
reached(t, n) ==
  IF n = 0 THEN {<<>>}
  ELSE reached(t, n - 1)
       \cup {dir \o <<ent.name>> :
               <<dir, ent>> \in
                 {<<d, e>> \in UNION {{<<d, e>> : e \in SeqToSet(readdir(t, d).value)} :
                                        d \in {x \in reached(t, n - 1) : ~readdir(t, x).isNull}} :
                    e.type = "dir"}}

\* the regular files named rollout-*.jsonl in the listable directories
\* reached from the root
rolloutFiles(t) ==
  IF ~t.exists THEN {}
  ELSE UNION {{d \o <<e.name>> :
                 e \in {x \in SeqToSet(readdir(t, d).value) :
                          /\ x.type = "file"
                          /\ startsWith(x.name, RolloutPrefix)
                          /\ endsWith(x.name, JsonlSuffix)}} :
                d \in {x \in reached(t, MaxDepth) : ~readdir(t, x).isNull}}

\* C17: findSessionFiles returns exactly the regular files whose name starts
\* with "rollout-" and ends with ".jsonl" in the root and in the listable
\* directories reached from it, each once; it returns no directory, no entry
\* that is not a regular file and no file with another name, and it returns.
C17_WalkFindsRolloutFiles ==
  ~walked.isNull =>
    /\ SeqToSet(walked.value) = rolloutFiles(tree)
    /\ Cardinality(SeqToSet(walked.value)) = Len(walked.value)

\* the walk went through a tree whose root holds a directory named like a
\* rollout file and an entry named like one that is not a regular file, with
\* a file of another name one level down and a directory that cannot be
\* listed two levels down, and returned the rollout file of the directory
C17_Witness ==
  /\ ~walked.isNull
  /\ walked.value = <<<<RolloutName(2), RolloutName(1)>>>>
  /\ tree.exists
  /\ readdir(tree, <<toString(2024), pad2(5)>>).isNull
  /\ ~readdir(tree, <<toString(2024)>>).isNull
  /\ \E e \in SeqToSet(readdir(tree, <<>>).value) :
       e.type = "other" /\ e.name = RolloutName(1)
  /\ \E e \in SeqToSet(readdir(tree, <<toString(2024)>>).value) :
       e.type = "file" /\ ~endsWith(e.name, JsonlSuffix)

(***************************************************************************)
(* Properties of refresh on a disk that cannot be read.                    *)
(***************************************************************************)
\* the files on disk below the root that lie in the root itself or in a
\* directory that can be listed
listedFiles(root) ==
  {f \in AllFiles :
     /\ RootOf[f] = root
     /\ disk[f].exists
     /\ endsWith(NameOf(f), JsonlSuffix)
     /\ \A d \in Dirs : DirParts[d] = DirOf[f] => dirs[d].exists /\ dirs[d].listable}

\* C18: a refresh that finds the root missing installs the empty index and
\* returns; findSessionFiles answers with the empty list for a root that is
\* missing and, for a root that is there, with the files of the root and of
\* every directory that can be listed, a directory that cannot be listed
\* being left out; in neither case does the refresh raise.
C18_MissingRootAndUnlistableDir ==
  [][/\ (pc = "load" /\ pc' # "load" /\ ~rootExists[r.sessionsRoot]) =>
          /\ index' = emptyIndex(r.sessionsRoot)
          /\ pc' = "idle"
          /\ outcome' = "returned"
     /\ (pc = "discover" /\ pc' # "discover") =>
          /\ pc' = "stat"
          /\ outcome' = "running"
          /\ ~rootExists[r.sessionsRoot] => r'.files = <<>>
          /\ rootExists[r.sessionsRoot] =>
               /\ SeqToSet(r'.files) = listedFiles(r.sessionsRoot)
               /\ Len(r'.files) = Cardinality(listedFiles(r.sessionsRoot))]_vars

\* discovery has answered while the directory 2024/05/01, which holds a log
\* file, could not be listed: the file of the root was returned, the file
\* of that directory was not
C18_Witness ==
  /\ pc = "stat"
  /\ r.i = 1
  /\ dirs["d1"].exists
  /\ ~dirs["d1"].listable
  /\ disk["f1"].exists
  /\ r.files = <<"f2">>

(***************************************************************************)
(* Properties of buildSessionSummary.                                      *)
(***************************************************************************)
\* the file buildSessionSummary is working on
Extracted == r.files[r.i]

\* C19: when buildSessionSummary has stat-ed a file whose first line is
\* missing, is not JSON or is not a session_meta record, it returns a
\* summary: the refresh goes on with the next file, the summary has no
\* metadata and, when the path encodes no date, its display date is the one
\* of the modification time.
C19_SummaryWithoutMeta ==
  [][(/\ pc = "xread"
      /\ pc' # "xread"
      /\ tryReadSessionMeta(FileLines(Extracted)).isNull)
     => /\ pc' = "stat"
        /\ outcome' = "running"
        /\ normalizeCacheKey(Extracted) \in DOMAIN hist'.computed
        /\ hist'.computed[normalizeCacheKey(Extracted)].meta = [timestampIso |-> [kind |-> "absent"], cwd |-> [isString |-> FALSE, parts |-> <<>>]]
        /\ hist'.computed[normalizeCacheKey(Extracted)].timeLabel = <<45, 45, 58, 45, 45>>
        /\ inferYmdFromPath(RelParts(Extracted)).isNull =>
             hist'.computed[normalizeCacheKey(Extracted)].ymd
               = toYmdLocal(MtimeLocal(r.stat.mtimeMs, r.dateTime))]_vars

(***************************************************************************)
(* Frame of the commands.                                                  *)
(***************************************************************************)
\* the files whose bytes, name, place or times the step changes
Touched == {f \in AllFiles : disk'[f] # disk[f] \/ logs'[f] # logs[f]}

\* the step is one of refresh, of the search command, of promote
RefreshStep == pc' # pc \/ r' # r
SearchStep == s_pc' # s_pc \/ s_loc' # s_loc
PromoteStep == p_pc' # p_pc

\* C20: no step of a command changes a log file that is there: a step of
\* refresh writes nothing but the cache file, a step of the search writes
\* nothing, and a step of promote writes nothing but the copy it makes, a
\* new file of today's directory; the source keeps its lines, name and
\* place.
C20_LogFilesAreReadOnly ==
  [][/\ RefreshStep => /\ Touched = {}
                       /\ dirs' = dirs
     /\ SearchStep => /\ Touched = {}
                      /\ dirs' = dirs
                      /\ cacheFile' = cacheFile
     /\ PromoteStep =>
          /\ cacheFile' = cacheFile
          /\ \A f \in Touched :
               /\ f \in Copies
               /\ f # p_loc'.session
               /\ DirOf[f] = DirParts[TodayDir]
               /\ disk[f].exists => disk[f].tmp \/ p_pc = "utimes"
          /\ logs'[p_loc'.session] = logs[p_loc'.session]
          /\ disk'[p_loc'.session] = disk[p_loc'.session]]_vars

\* promote has copied a log file of an earlier day into today's directory
\* and a refresh has indexed the copy next to its source, whose lines are
\* the ones the Codex CLI wrote
C20_Witness ==
  /\ p_pc = "done"
  /\ ~disk[p_loc.dest].tmp
  /\ logs[p_loc.dest] # <<>>
  /\ logs[p_loc.dest] # logs[p_loc.session]
  /\ logs[p_loc.session] = InitialLines(p_loc.session)
  /\ \E a, b \in 1..Len(index.sessions) :
       /\ index.sessions[a].fsPath = p_loc.dest
       /\ index.sessions[b].fsPath = p_loc.session
  /\ cacheFile.kind = "json"


(***************************************************************************)
(* deleteSessionsWithConfirmation (src/i18n.ts:194-248), one action per    *)
(* stretch between two awaits.  The command that calls it goes on with     *)
(* HistoryService.refresh and searchProvider.clear (extension.ts:708-711). *)
(***************************************************************************)

\* lines 205-211: the targets are resolved to the sessions of the index,
\* without duplicates; with no session the function returns, otherwise the
\* modal confirmation is shown
DeleteCommand(sessions, useTrash) ==
  /\ del.pc = "idle"
  /\ del' = [NoDelete EXCEPT !.pc = IF sessions = <<>> THEN "idle" ELSE "confirm",
                             !.sessions = sessions,
                             !.useTrash = useTrash]
  /\ UNCHANGED <<envVars, refreshVars, searchVars, <<p_pc, p_loc>>, <<pins, chat, tree, walked, parked, view>>>>

\* lines 211-216: the dialog answers; anything but "OK" returns.  After "OK"
\* delete.useTrash is taken from the configuration passed in and the
\* creation of the quarantine directory is requested.
DeleteConfirm(choice) ==
  /\ del.pc = "confirm"
  /\ del' = [del EXCEPT !.pc = IF choice = "OK" THEN "mkdir" ELSE "idle",
                        !.choice = choice,
                        !.present = {f \in Files : disk[f].exists /\ \E n \in DOMAIN del.sessions : del.sessions[n] = f}]
  /\ UNCHANGED <<envVars, refreshVars, searchVars, <<p_pc, p_loc>>, <<pins, chat, tree, walked, parked, view>>>>

\* line 216: createDirectory answers; it is not inside a try, so a failure
\* rejects the function before any file is touched
DeleteCreateDirectory(ok) ==
  /\ del.pc = "mkdir"
  /\ del' = [del EXCEPT !.pc = IF ok THEN "file" ELSE "idle", !.i = 1, !.stage = "trash"]
  /\ UNCHANGED <<envVars, refreshVars, searchVars, <<p_pc, p_loc>>, <<pins, chat, tree, walked, parked, view>>>>

\* a handler that removes the file for good when the copy into the
\* quarantine directory has failed
nextDeleteStage_ForcesDelete(stage, ok) ==
  CASE stage = "trash" -> IF ok THEN "next" ELSE "rename"
    [] stage = "rename" -> IF ok THEN "next" ELSE "copy"
    [] stage = "copy" -> "unlink"
    [] stage = "unlink" -> "next"

\* lines 219-243, the nesting of the try blocks: what follows the file
\* system call of `stage` when it succeeded (ok) or threw.  delete (221) is
\* followed by rename (229) when it throws, rename by copy (237) when it
\* throws, copy by delete with useTrash false (238) when it succeeds; "next"
\* is the next session of the loop.
nextDeleteStage(stage, ok) ==
  CASE stage = "trash" -> IF ok THEN "next" ELSE "rename"
    [] stage = "rename" -> IF ok THEN "next" ELSE "copy"
    [] stage = "copy" -> IF ok THEN "unlink" ELSE "next"
    [] stage = "unlink" -> "next"

\* lines 219-247: one file system call on sessions[i] answers.  A call on a
\* file that is not there throws.  After the last session the function
\* returns.
DeleteStep(ok) ==
  /\ del.pc = "file"
  /\ LET f == del.sessions[del.i]
         next == nextDeleteStage(del.stage, ok)
         removes == ok /\ del.stage \in {"trash", "rename", "unlink"}
         last == next = "next" /\ del.i = Len(del.sessions)
     IN /\ ok => disk[f].exists
        /\ disk' = IF removes THEN [disk EXCEPT ![f].exists = FALSE] ELSE disk
        /\ del' = [del EXCEPT
                     !.trash = IF ok /\ del.stage = "trash" /\ del.useTrash
                               THEN @ \cup {f} ELSE @,
                     !.quarantine = IF ok /\ del.stage \in {"rename", "copy"}
                                    THEN @ \cup {f} ELSE @,
                     !.unlinked = IF ok /\ (del.stage = "unlink"
                                            \/ (del.stage = "trash" /\ ~del.useTrash))
                                  THEN @ \cup {f} ELSE @,
                     !.stage = IF next = "next" THEN "trash" ELSE next,
                     !.i = IF next = "next" THEN del.i + 1 ELSE del.i,
                     !.pc = IF last THEN "idle" ELSE "file"]
  /\ UNCHANGED <<logs, dirs, rootExists, dateTime, config, envSteps>>
  /\ UNCHANGED <<refreshVars, searchVars, <<p_pc, p_loc>>, <<pins, chat, tree, walked, parked, view>>>>

NextDelete ==
  \* the sessions of the index that the selection resolves to
  \/ \E n \in 0..Len(index.sessions), useTrash \in BOOLEAN :
       \E pick \in [1..n -> 1..Len(index.sessions)] :
         /\ \A a, b \in 1..n : pick[a] = pick[b] => a = b
         /\ DeleteCommand([k \in 1..n |-> index.sessions[pick[k]].fsPath], useTrash)
  \/ \E choice \in {"OK", "dismissed"} : DeleteConfirm(choice)
  \/ \E ok \in BOOLEAN : DeleteCreateDirectory(ok)
  \/ \E ok \in BOOLEAN : DeleteStep(ok)

SpecDelete == InitSearch /\ [][NextDelete]_vars

(***************************************************************************)
(* PinStore (src/i18n.ts:89-181).  Each method runs from getAll to the     *)
(* call of memento.update without an await in between, and pin and unpin   *)
(* call pinMany and unpinMany with one path.                               *)
(***************************************************************************)
\* the paths callers pass: two spellings of f1, a padded one, f2, blanks
PinPaths == {"f1", " f1 ", "f1/.", "f2", " "}

\* line 101, raw.trim()
trimPath(raw) ==
  CASE raw = " f1 " -> "f1"
    [] raw = " " -> ""
    [] OTHER -> raw

\* the first n - 1 elements of s hold no element with the key of s[n]
firstOfKey(s, n) == \A m \in 1..(n - 1) : normalizeCacheKey(s[m]) # normalizeCacheKey(s[n])

\* a normalization that keeps every non-empty path
normalizeFsPaths_KeepsDuplicates(fsPaths) ==
  LET trimmed == SelectSeq([n \in DOMAIN fsPaths |-> trimPath(fsPaths[n])], LAMBDA p : p # "")
  IN [n \in DOMAIN trimmed |-> [fsPath |-> trimmed[n], cacheKey |-> normalizeCacheKey(trimmed[n])]]

\* normalizeFsPaths: the non-empty trimmed paths with their keys, the first
\* path of each key only, in the order given
normalizeFsPaths(fsPaths) ==
  LET trimmed == SelectSeq([n \in DOMAIN fsPaths |-> trimPath(fsPaths[n])], LAMBDA p : p # "")
      keep == {n \in DOMAIN trimmed : firstOfKey(trimmed, n)}
      at(k) == CHOOSE n \in keep : Cardinality({m \in keep : m <= n}) = k
  IN [k \in 1..Cardinality(keep) |->
        [fsPath |-> trimmed[at(k)], cacheKey |-> normalizeCacheKey(trimmed[at(k)])]]

\* pinMany: the normalized paths whose key is not pinned yet are appended
\* with pinnedAt = base + i, in one update; the others are counted as skipped
pinMany(fsPaths, base) ==
  LET normalized == normalizeFsPaths(fsPaths)
      existing == {pins.list[n].cacheKey : n \in DOMAIN pins.list}
      fresh == {i \in DOMAIN normalized : normalized[i].cacheKey \notin existing}
      at(k) == CHOOSE i \in fresh : Cardinality({j \in fresh : j <= i}) = k
      toAdd == [k \in 1..Cardinality(fresh) |->
                  [fsPath |-> normalized[at(k)].fsPath,
                   cacheKey |-> normalized[at(k)].cacheKey,
                   pinnedAt |-> base + (at(k) - 1)]]
  IN /\ pins' = [list |-> pins.list \o toAdd,
                 op |-> "pinMany", given |-> fsPaths, before |-> pins.list,
                 result |-> [changed |-> Len(toAdd), skipped |-> Len(normalized) - Len(toAdd)]]
     /\ UNCHANGED <<envVars, refreshVars, searchVars, <<p_pc, p_loc>>>>
     /\ UNCHANGED <<tree, walked, parked, view, del, chat>>

\* unpinMany: the entries with one of the normalized keys are filtered out,
\* in one update; a key that was not pinned is counted as skipped
unpinMany(fsPaths) ==
  LET normalized == normalizeFsPaths(fsPaths)
      removeKeys == {normalized[n].cacheKey : n \in DOMAIN normalized}
      beforeKeys == {pins.list[n].cacheKey : n \in DOMAIN pins.list}
      nextPins == SelectSeq(pins.list, LAMBDA p : p.cacheKey \notin removeKeys)
      removedKeysCount == Cardinality(removeKeys \cap beforeKeys)
  IN /\ pins' = [list |-> IF removedKeysCount > 0 THEN nextPins ELSE pins.list,
                 op |-> "unpinMany", given |-> fsPaths, before |-> pins.list,
                 result |-> [changed |-> removedKeysCount,
                             skipped |-> Len(normalized) - removedKeysCount]]
     /\ UNCHANGED <<envVars, refreshVars, searchVars, <<p_pc, p_loc>>>>
     /\ UNCHANGED <<tree, walked, parked, view, del, chat>>

NextPins ==
  \* Date.now() of two calls: the same millisecond, or a later one
  \/ \E a, b \in PinPaths, base \in {0, 1} : pinMany(<<a, b>>, base)
  \/ \E a \in PinPaths, base \in {0, 1} : pinMany(<<a>>, base)
  \/ pinMany(<<>>, 0)
  \/ \E a, b \in PinPaths : unpinMany(<<a, b>>)
  \/ \E a \in PinPaths : unpinMany(<<a>>)
  \/ unpinMany(<<>>)

\* the pins do not depend on the log files: every file is on disk
InitPins == InitSearch /\ (\A f \in Files : disk[f].exists) /\ index.sessions[1].fsPath = "f2"

SpecPins == InitPins /\ [][NextPins]_vars

(***************************************************************************)
(* Properties of the search loop and of its result.                        *)
(***************************************************************************)
\* C22: once totalHits has reached maxResults the search opens no further
\* candidate file and counts no further hit.
C22_CapStopsSearch ==
  [][(s_pc \in {"file", "line"} /\ capReached(s_loc.totalHits, s_loc.maxResults))
       => (s_hist'.opened = s_hist.opened /\ s_loc'.totalHits = s_loc.totalHits)]_vars

\* C26: the messageIndex of a hit is the position of the matching record
\* among all the message records with role user or assistant of its file.
C26_CounterCountsEveryMessage ==
  [][s_loc'.totalHits = s_loc.totalHits + 1
       => LET lines == FileLines(s_loc.sessions[s_loc.i].fsPath)
              messages == {n \in 1..s_loc'.pos :
                             /\ lines[n].raw = "json"
                             /\ lines[n].type = "response_item"
                             /\ lines[n].ptype = "message"
                             /\ lines[n].role \in {"user", "assistant"}}
          IN s_loc'.msgIndex = Cardinality(messages)]_vars

\* C27: in a returned result the sessions are ordered newest first by
\* display date and time label, the hits of a session by messageIndex
\* ascending, every session appears once and has at least one hit.
C27_ResultIsOrdered ==
  ~s_result.isNull =>
    LET sessions == s_result.value.sessions
    IN /\ \A a, b \in 1..Len(sessions) :
            /\ ymdLater(sessions[a].session.ymd, sessions[b].session.ymd) => a < b
            /\ (/\ sessions[a].session.ymd = sessions[b].session.ymd
                /\ strLess(sessions[b].session.timeLabel, sessions[a].session.timeLabel))
                 => a < b
            /\ sessions[a].session.cacheKey = sessions[b].session.cacheKey => a = b
       /\ \A a \in 1..Len(sessions) :
            /\ sessions[a].hits # <<>>
            /\ \A i, j \in 1..Len(sessions[a].hits) :
                 i < j => sessions[a].hits[i].messageIndex < sessions[a].hits[j].messageIndex

(***************************************************************************)
(* Properties of the commands.                                             *)
(***************************************************************************)
\* C25: once the search view has been cleared while a search was scanning,
\* the view never holds the result of that search.
C25_ClearedViewStaysEmpty == view.clearedDuringSearch => view.root.isNull

(***************************************************************************)
(* Two calls of HistoryService.refresh.  Every command that refreshes      *)
(* awaits refresh() in its own async handler (extension.ts:388-415,        *)
(* 581-642, 686-713, 280-312, 751-757) and refresh keeps no in-flight      *)
(* promise and takes no lock (historyService.ts:64-137), so a second call  *)
(* can start and run while the first one waits for the disk.               *)
(***************************************************************************)

\* a switch between two calls that push to one shared list of summaries
Switch_SharedSummaries ==
  /\ <<pc, r>> # <<parked.pc, parked.r>>
  /\ pc' = parked.pc
  /\ r' = [parked.r EXCEPT !.summaries = r.summaries]
  /\ parked' = [pc |-> pc, r |-> r]
  /\ UNCHANGED <<envVars, index, cacheFile, outcome, hist>>
  /\ UNCHANGED <<searchVars, <<p_pc, p_loc>>, <<pins, chat, tree, walked, view, del>>>>

\* the event loop turns to the other call: the locals of the call that was
\* running are kept in `parked`, those of the other call become current
Switch ==
  /\ <<pc, r>> # <<parked.pc, parked.r>>
  /\ pc' = parked.pc
  /\ r' = parked.r
  /\ parked' = [pc |-> pc, r |-> r]
  /\ UNCHANGED <<envVars, index, cacheFile, outcome, hist>>
  /\ UNCHANGED <<searchVars, <<p_pc, p_loc>>, <<pins, chat, tree, walked, view, del>>>>

NextPasses ==
  \/ \E force \in BOOLEAN : RefreshBegin(force)
  \/ RefreshLoadCache
  \/ RefreshDiscover
  \/ RefreshStat
  \/ ExtractStat
  \/ ExtractRead
  \/ RefreshFinish
  \/ RefreshWrite
  \/ Switch

SpecPasses == Init /\ [][NextPasses]_vars

\* C23: at most one reconciliation pass, and so at most one write of the
\* cache file, is in progress at any time.
C23_OnePassAtATime == ~(pc # "idle" /\ parked.pc # "idle")

(***************************************************************************)
(* The cache write of one refresh.                                         *)
(***************************************************************************)
\* C24 (as stated): a refresh that returns has written the cache file
\* exactly once.
C24_WrittenExactlyOnce ==
  [][(pc # "idle" /\ pc' = "idle" /\ outcome' = "returned") => hist'.writes = 1]_vars

\* C24: within one refresh the cache file is written at most once, and only
\* after the loop has gone through every discovered file and the index has
\* been built from its summaries; a refresh that went through the loop ends
\* with exactly one write, one that found no sessions root or that failed
\* in the loop ends with none.
C24_WriteAfterFullPass ==
  [][/\ hist'.writes = hist.writes + 1
          => /\ hist.writes = 0
             /\ r.i = Len(r.files) + 1
             /\ hist.installed
             /\ index = buildIndex(r.sessionsRoot, sortSummaries(r.summaries))
     /\ (pc # "idle" /\ pc' = "idle")
          => hist'.writes = (IF pc = "write" THEN 1 ELSE 0)
     /\ (pc \in {"stat", "xstat", "xread"} /\ pc' = "idle")
          => (outcome' = "raised" /\ cacheFile' = cacheFile)]_vars

C24_Witness ==
  /\ pc = "idle"
  /\ outcome = "returned"
  /\ hist.writes = 1
  /\ Len(r.files) = 2
  /\ Len(r.summaries) = 2

(***************************************************************************)
(* Deletion.                                                               *)
(***************************************************************************)
\* C21: with delete.useTrash enabled every target that was on disk is in
\* the OS trash, in the quarantine directory or still at its path, no
\* target has been removed for good without a copy in the quarantine
\* directory, and without the answer OK no target has been touched.
C21_SafeDeletion ==
  /\ del.useTrash
       => /\ \A f \in del.present :
               f \in del.trash \/ f \in del.quarantine \/ disk[f].exists
          /\ del.unlinked \subseteq del.quarantine
  /\ del.choice # "OK"
       => /\ del.trash \cup del.quarantine \cup del.unlinked = {}
          /\ \A f \in del.present : disk[f].exists

C21_Witness ==
  /\ del.pc = "idle"
  /\ del.choice = "OK"
  /\ del.useTrash
  /\ Len(del.sessions) = 2
  /\ del.unlinked # {}
  /\ \E f \in del.present : disk[f].exists /\ f \notin del.quarantine

(***************************************************************************)
(* The summary of a log file.                                              *)
(***************************************************************************)
\* C28: the display date of a summary is the date of the YYYY/MM/DD
\* directories of its path below the sessions root when the path has them;
\* otherwise the date of the session start when the timestamp parses;
\* otherwise the date of the modification time.
C28_DisplayDatePriority ==
  \A k \in DOMAIN hist.computed :
    LET s == hist.computed[k]
        inferred == inferYmdFromPath(RelParts(s.fsPath))
        ts == s.meta.timestampIso
    IN s.ymd = IF ~inferred.isNull THEN inferred.value
               ELSE IF ts.kind = "instant" THEN toYmdLocal(ts.local[s.timeZone])
               ELSE toYmdLocal(MtimeLocal(disk[s.fsPath].mtime, s.timeZone))

C28_Witness ==
  /\ {"k1", "k2"} \subseteq DOMAIN hist.computed
  /\ hist.computed["k1"].meta.timestampIso.kind = "instant"
  /\ toYmdLocal(hist.computed["k1"].meta.timestampIso.local[hist.computed["k1"].timeZone])
       # hist.computed["k1"].ymd
  /\ hist.computed["k2"].meta.timestampIso.kind = "invalid"
  /\ hist.computed["k2"].ymd.day = 2

\* C29: the preview messages of a summary are the first previewMaxMessages
\* qualifying messages of the file, in file order, where a qualifying
\* message is a message record of the user or of the assistant whose text is
\* not empty and that is not a boilerplate message of the user; the scan
\* ends at the line that fills the last slot.
C29_PreviewIsFirstQualifying ==
  \A k \in DOMAIN hist.computed :
    LET s == hist.computed[k]
        lines == FileLines(s.fsPath)
        limit == s.previewMaxMessages
        qualifies(line) ==
          /\ line.raw = "json"
          /\ line.type = "response_item"
          /\ line.ptype = "message"
          /\ line.role \in {"user", "assistant"}
          /\ previewText(line.role, line.text) # <<>>
          /\ ~(line.role = "user" /\ isBoilerplateUserMessage(previewText(line.role, line.text)))
        q == SelectSeq(lines, LAMBDA line : qualifies(line))
        taken == IF Len(q) < limit THEN Len(q) ELSE limit
        upTo(n) == Cardinality({m \in 1..n : qualifies(lines[m])})
    IN /\ Len(s.previewMessages) = taken
       /\ \A n \in 1..taken :
            s.previewMessages[n] =
              [role |-> q[n].role, text |-> previewText(q[n].role, q[n].text)]
       /\ LET scanned == readPreviewMessages(lines, limit).scanned
          IN IF Len(q) < limit THEN scanned = Len(lines)
             ELSE upTo(scanned) = limit /\ qualifies(lines[scanned])

C29_Witness ==
  /\ "k1" \in DOMAIN hist.computed
  /\ hist.computed["k1"].previewMaxMessages = 1
  /\ hist.computed["k1"].previewMessages = <<[role |-> "assistant", text |-> <<"b">>]>>
  /\ Len(FileLines("f1")) = 8
  /\ readPreviewMessages(FileLines("f1"), 1).scanned = 6

\* C30: the snippet of a summary is the text, on one line, of the first
\* qualifying message of the user in the file, or, when that message is a
\* title prompt that a message of the assistant with text follows, the text
\* of that message; it is the base name of the file when the file has no
\* qualifying message of the user.
C30_SnippetFromFirstUserMessage ==
  \A k \in DOMAIN hist.computed :
    LET s == hist.computed[k]
        lines == FileLines(s.fsPath)
        isMessage(n, role) ==
          /\ lines[n].raw = "json"
          /\ lines[n].type = "response_item"
          /\ lines[n].ptype = "message"
          /\ lines[n].role = role
          /\ previewText(role, lines[n].text) # <<>>
          /\ ~(role = "user" /\ isBoilerplateUserMessage(previewText(role, lines[n].text)))
        users == {n \in 1..Len(lines) : isMessage(n, "user")}
        first == CHOOSE n \in users : \A m \in users : n <= m
        firstText == previewText("user", lines[first].text)
        replies == {n \in 1..Len(lines) : n > first /\ isMessage(n, "assistant")}
        reply == CHOOSE n \in replies : \A m \in replies : n <= m
    IN IF users = {} THEN s.snippet.from = "basename"
       ELSE /\ s.snippet.from = "message"
            /\ s.snippet.text =
                 IF firstText[1] = "Generate a concise UI title" /\ replies # {}
                 THEN singleLineSnippet(previewText("assistant", lines[reply].text), 70)
                 ELSE singleLineSnippet(firstText, 70)

(***************************************************************************)
(* The two viewers of a session: buildChatSessionModel (chatModelBuilder)  *)
(* and renderTranscript (transcriptRenderer), as far as they number the    *)
(* messages of a file.                                                     *)
(***************************************************************************)
\* chatModelBuilder normalizeText: the line ends are unified and the ends of
\* the text trimmed; the texts here hold no line breaks
normalizeText(s) == trimEnd(trimStart(s))

\* a builder that numbers the developer messages as well
readTimelineItems_NumbersDeveloper(lines) ==
  LET scan[n \in 0..Len(lines)] ==
        IF n = 0 THEN [items |-> <<>>, messageIndex |-> 0]
        ELSE LET before == scan[n - 1]
                 line == lines[n]
             IN IF /\ line.raw = "json"
                   /\ line.type = "response_item" /\ line.ptype = "message"
                   /\ line.role \in {"developer", "user", "assistant"}
                   /\ normalizeText(line.text) # <<>>
                THEN [items |-> Append(before.items,
                                       [line |-> n, role |-> line.role,
                                        messageIndex |-> Some(before.messageIndex + 1)]),
                      messageIndex |-> before.messageIndex + 1]
                ELSE before
  IN scan[Len(lines)].items

\* readTimelineItems lines 52-75: the message items of the timeline in file
\* order.  A developer, user or assistant message with text becomes an item;
\* a user or assistant item takes the next messageIndex, a developer item
\* has none.  `line` is the position of the record in the file.
readTimelineItems(lines) ==
  LET scan[n \in 0..Len(lines)] ==
        IF n = 0 THEN [items |-> <<>>, messageIndex |-> 0]
        ELSE LET before == scan[n - 1]
                 line == lines[n]
                 numbered == line.role \in {"user", "assistant"}
                 idx == IF numbered THEN Some(before.messageIndex + 1) ELSE Null
             IN IF /\ line.raw = "json"
                   /\ line.type = "response_item" /\ line.ptype = "message"
                   /\ line.role \in {"developer", "user", "assistant"}
                   /\ normalizeText(line.text) # <<>>
                THEN [items |-> Append(before.items,
                                       [line |-> n, role |-> line.role, messageIndex |-> idx]),
                      messageIndex |-> IF numbered THEN before.messageIndex + 1
                                       ELSE before.messageIndex]
                ELSE before
  IN scan[Len(lines)].items

\* renderTranscript lines 32-58: the headings `## [#k] Role` of the
\* transcript; the k-th element is the position in the file of the record
\* that heading k was written for.  Developer messages get a heading without
\* a number, messages without text get none.
renderTranscript(lines) ==
  LET scan[n \in 0..Len(lines)] ==
        IF n = 0 THEN <<>>
        ELSE IF /\ lines[n].raw = "json"
                /\ lines[n].type = "response_item" /\ lines[n].ptype = "message"
                /\ lines[n].role \in {"user", "assistant", "developer"}
                /\ normalizeWhitespace(lines[n].text) # <<>>
                /\ lines[n].role \in {"user", "assistant"}
             THEN Append(scan[n - 1], n)
             ELSE scan[n - 1]
  IN scan[Len(lines)]

(***************************************************************************)
(* Two calls of refresh while the Codex CLI writes to the log files, so    *)
(* that the two passes see different files.                                *)
(***************************************************************************)
NextOverlap ==
  \/ \E force \in BOOLEAN : RefreshBegin(force)
  \/ RefreshLoadCache
  \/ RefreshDiscover
  \/ RefreshStat
  \/ ExtractStat
  \/ ExtractRead
  \/ RefreshFinish
  \/ RefreshWrite
  \/ Switch
  \/ FileWritten("f1")

\* two log files are there and no cache file has been written yet
InitOverlap ==
  /\ Init
  /\ ~disk["f2"].exists
  /\ cacheFile = Missing

SpecOverlap == InitOverlap /\ [][NextOverlap]_vars

(***************************************************************************)
(* ChatPanelManager (chat/chatPanelManager.ts): the preview panel, from    *)
(* its creation on.  chat.state is stateByPanel of the panel, chat.ready   *)
(* its readyByPanel; chat.building holds the state objects that calls of   *)
(* sendSessionData picked up and whose buildChatSessionModel has not       *)
(* answered yet; chat.posted is the last sessionData message handed to     *)
(* the webview, chat.postedUnready whether one was posted before the       *)
(* webview had reported ready.                                             *)
(***************************************************************************)
\* the values tryOpenPreview passes as revealMessageIndex: none for a
\* session node, the messageIndex of the hit for a search hit node
RevealIndexes == {Null, Some(1)}

\* openSession lines 49-64 with preview = true, called by tryOpenPreview for
\* the selected node: the preview panel is created when there is none (its
\* webview not ready yet), the state of the panel is replaced, and when the
\* webview is ready sendSessionData is called, which picks up the state and
\* awaits buildChatSessionModel
openSession(session, revealMessageIndex) ==
  /\ LET panel == IF chat.exists THEN chat ELSE [chat EXCEPT !.exists = TRUE, !.ready = FALSE]
         state == [fsPath |-> session.fsPath, revealMessageIndex |-> revealMessageIndex]
     IN chat' = [panel EXCEPT !.state = Some(state),
                              !.building = IF panel.ready THEN @ \cup {state} ELSE @]
  /\ UNCHANGED <<envVars, refreshVars, searchVars, <<p_pc, p_loc>>>>
  /\ UNCHANGED <<tree, walked, parked, view, del, pins>>

\* handleMessage lines 164-203: the webview of the panel reports "ready"
\* once it has loaded, or asks for a "reload"; both call sendSessionData,
\* "ready" after setting readyByPanel
handleMessage(type) ==
  /\ chat.exists
  /\ ~chat.state.isNull
  /\ type = "ready" => ~chat.ready
  /\ type = "reload" => chat.ready
  /\ chat' = [chat EXCEPT !.ready = IF type = "ready" THEN TRUE ELSE @,
                          !.building = @ \cup {chat.state.value}]
  /\ UNCHANGED <<envVars, refreshVars, searchVars, <<p_pc, p_loc>>>>
  /\ UNCHANGED <<tree, walked, parked, view, del, pins>>

\* sendSessionData lines 209-221, after the await: buildChatSessionModel has
\* answered for the state the call picked up, and the message is posted
\* with that state's model and revealMessageIndex; a file that cannot be
\* opened rejects the build and nothing is posted
sendSessionData(state) ==
  /\ state \in chat.building
  /\ chat' = [chat EXCEPT
                !.building = @ \ {state},
                !.posted = IF Openable(state.fsPath)
                           THEN Some([type |-> "sessionData",
                                      model |-> [fsPath |-> state.fsPath,
                                                 items |-> readTimelineItems(FileLines(state.fsPath))],
                                      revealMessageIndex |-> state.revealMessageIndex])
                           ELSE @,
                !.postedUnready = @ \/ (Openable(state.fsPath) /\ ~chat.ready)]
  /\ UNCHANGED <<envVars, refreshVars, searchVars, <<p_pc, p_loc>>>>
  /\ UNCHANGED <<tree, walked, parked, view, del, pins>>

NextChat ==
  \/ \E n \in 1..Len(index.sessions), reveal \in RevealIndexes :
       openSession(index.sessions[n], reveal)
  \/ \E type \in {"ready", "reload"} : handleMessage(type)
  \/ \E state \in chat.building : sendSessionData(state)

SpecChat == InitPins /\ [][NextChat]_vars

(***************************************************************************)
(* Properties of the index: order inside a day, width of the keys.         *)
(***************************************************************************)
\* C31: in an index that refresh built, every day list of byY is sorted by
\* time label, greater labels first.
C31_DayListsNewestFirst ==
  BuiltIndex =>
    \A k \in BucketKeys :
      LET list == index.byY[k[1]][k[2]][k[3]]
      IN \A a, b \in 1..Len(list) :
           a < b => ~strLess(list[a].timeLabel, list[b].timeLabel)

C31_Witness ==
  /\ BuiltIndex
  /\ \E k \in BucketKeys :
       LET list == index.byY[k[1]][k[2]][k[3]]
       IN Len(list) = 2 /\ strLess(list[2].timeLabel, list[1].timeLabel)

\* C32: in an index that refresh built, every year key of byY has four
\* digits and every month key and day key two, and so has the display date
\* of every session of the index.
C32_KeysHaveFixedWidth ==
  BuiltIndex =>
    /\ \A k \in BucketKeys : isDigits(k[1], 4) /\ isDigits(k[2], 2) /\ isDigits(k[3], 2)
    /\ \A n \in 1..Len(index.sessions) :
         LET parts == split(index.sessions[n].localDate, Hyphen)
         IN /\ Len(parts) = 3
            /\ isDigits(parts[1], 4) /\ isDigits(parts[2], 2) /\ isDigits(parts[3], 2)

(***************************************************************************)
(* The pin list.                                                           *)
(***************************************************************************)
\* C33: the pin list never holds two entries with the same cache key; a
\* pinMany call keeps the entries it found and adds one entry for each given
\* key that was not pinned, counting the other given keys as skipped; an
\* unpinMany call removes the entries of the given keys and no other.
C33_PinsAreUniqueByKey ==
  LET key(p) == normalizeCacheKey(p.fsPath)
      keysOf(list) == {key(list[n]) : n \in DOMAIN list}
      givenKeys == {normalizeCacheKey(trimPath(pins.given[n])) :
                      n \in {m \in DOMAIN pins.given : trimPath(pins.given[m]) # ""}}
  IN /\ \A a, b \in DOMAIN pins.list : key(pins.list[a]) = key(pins.list[b]) => a = b
     /\ \A n \in DOMAIN pins.list : pins.list[n].cacheKey = key(pins.list[n])
     /\ pins.op = "pinMany"
          => /\ SubSeq(pins.list, 1, Len(pins.before)) = pins.before
             /\ keysOf(pins.list) = keysOf(pins.before) \cup givenKeys
             /\ pins.result.changed = Cardinality(givenKeys \ keysOf(pins.before))
             /\ pins.result.skipped = Cardinality(givenKeys \cap keysOf(pins.before))
             /\ givenKeys \subseteq keysOf(pins.before) => pins.list = pins.before
     /\ pins.op = "unpinMany"
          => /\ pins.list = SelectSeq(pins.before, LAMBDA p : key(p) \notin givenKeys)
             /\ pins.result.changed = Cardinality(givenKeys \cap keysOf(pins.before))
             /\ pins.result.skipped = Cardinality(givenKeys \ keysOf(pins.before))

C33_Witness ==
  /\ pins.op = "pinMany"
  /\ pins.given = <<"f1/.", " f1 ">>
  /\ Len(pins.before) = 1
  /\ pins.before[1].fsPath = "f2"
  /\ Len(pins.list) = 2

(***************************************************************************)
(* The hit counter of the search.                                          *)
(***************************************************************************)
\* C34: after every step of a search totalHits is the number of hits held
\* by the map of sessions and is at most maxResults; a step that records a
\* hit adds one to both; the totalHits of a returned result is the sum of
\* the lengths of the hit lists of its sessions.
C34_TotalHitsCountsStoredHits ==
  [][/\ s_loc'.totalHits = CountHits(s_loc'.bySession)
     /\ s_loc'.totalHits <= s_loc'.maxResults
     /\ (s_pc = "line" /\ s_loc'.bySession # s_loc.bySession)
          => /\ s_loc'.totalHits = s_loc.totalHits + 1
             /\ CountHits(s_loc'.bySession) = CountHits(s_loc.bySession) + 1
     /\ (s_pc = "line" /\ s_loc'.bySession = s_loc.bySession)
          => s_loc'.totalHits = s_loc.totalHits
     /\ ~s_result'.isNull
          => s_result'.value.totalHits = CountHits(s_result'.value.sessions)]_vars

C34_Witness ==
  /\ SearchReturnedResult
  /\ s_result.value.totalHits = 2
  /\ \E n \in 1..Len(s_result.value.sessions) : Len(s_result.value.sessions[n].hits) = 2

(***************************************************************************)
(* The search and the viewers number the messages alike.                   *)
(***************************************************************************)
\* C35: when the search records a hit, the record it was found in has the
\* hit's messageIndex in the timeline of the chat model builder and in the
\* headings of the transcript renderer too; in every file the three number
\* the same records: the user and assistant messages with text.
C35_ViewersNumberLikeSearch ==
  [][(s_pc = "line" /\ s_loc'.totalHits = s_loc.totalHits + 1)
       => LET session == s_loc.sessions[s_loc.i]
              lines == FileLines(session.fsPath)
              entry == CHOOSE e \in {s_loc'.bySession[n] : n \in 1..Len(s_loc'.bySession)} :
                         e.session.cacheKey = session.cacheKey
              hit == entry.hits[Len(entry.hits)]
              items == readTimelineItems(lines)
              headings == renderTranscript(lines)
          IN /\ \E k \in 1..Len(items) :
                  /\ items[k].line = s_loc'.pos
                  /\ items[k].messageIndex = Some(hit.messageIndex)
                  /\ items[k].role = hit.role
             /\ hit.messageIndex \in 1..Len(headings)
             /\ headings[hit.messageIndex] = s_loc'.pos
             /\ \A f \in Files :
                  LET searched == {n \in 1..Len(FileLines(f)) : isSearchable(FileLines(f)[n])}
                      built == readTimelineItems(FileLines(f))
                  IN /\ {built[k].line : k \in {j \in 1..Len(built) : ~built[j].messageIndex.isNull}}
                          = searched
                     /\ {renderTranscript(FileLines(f))[k] :
                           k \in 1..Len(renderTranscript(FileLines(f)))} = searched]_vars

\* a hit in the file that holds a developer message and a user message of
\* white space only before the messages with text
C35_Witness ==
  /\ s_pc \in {"line", "file", "returned"}
  /\ \E n \in 1..Len(s_loc.bySession) :
       LET lines == FileLines(s_loc.bySession[n].session.fsPath)
       IN /\ \E h \in 1..Len(s_loc.bySession[n].hits) :
               /\ s_loc.bySession[n].hits[h].messageIndex = 2
               /\ renderTranscript(lines)[2] = 6
          /\ Len(lines) = 6
          /\ lines[2].role = "developer"
          /\ lines[4].role = "user" /\ normalizeWhitespace(lines[4].text) = <<>>

(***************************************************************************)
(* The cache document and the index of one refresh.                        *)
(***************************************************************************)
\* C36: after a refresh that returned, the cache file holds the document the
\* refresh built, the keys of its entries are the cache keys of the sessions
\* of the installed index, no two sessions of the index share a cache key,
\* and the summary stored under a key is the session listed in the index.
C36_CacheAndIndexAgree ==
  WroteCache =>
    LET entries == cacheFile.data.entries
        sessions == index.sessions
    IN /\ cacheFile.kind = "json"
       /\ cacheFile.data = r.nextCache.value
       /\ DOMAIN entries = {sessions[n].cacheKey : n \in 1..Len(sessions)}
       /\ \A a, b \in 1..Len(sessions) : sessions[a].cacheKey = sessions[b].cacheKey => a = b
       /\ \A n \in 1..Len(sessions) : entries[sessions[n].cacheKey].summary = sessions[n]

\* a refresh returned with two sessions in the index, one summary taken from
\* the old cache and one computed anew
C36_Witness ==
  /\ WroteCache
  /\ Len(index.sessions) = 2
  /\ \E a, b \in 1..2 :
       /\ index.sessions[a].cacheKey \in DOMAIN hist.computed
       /\ index.sessions[b].cacheKey \notin DOMAIN hist.computed

(***************************************************************************)
(* The fingerprint of an entry and the content its summary was made from.  *)
(***************************************************************************)
\* C37: the entry stored for a computed summary carries the fingerprint
\* refresh took before buildSessionSummary read the file; when the file has
\* changed in between, that fingerprint differs from the state of the file
\* the summary was read in, and a refresh trusting this entry would not
\* reuse it for the file as it is.  A refresh that finds a trusted entry
\* whose fingerprint differs from the stat of the file in mtime or size
\* does not take its summary and calls buildSessionSummary.
C37_FingerprintPrecedesContent ==
  [][/\ (pc = "xread" /\ pc' = "stat")
          => LET fsPath == r.files[r.i]
                 key == normalizeCacheKey(fsPath)
                 entry == r'.nextEntries[key]
                 now == [mtimeMs |-> disk[fsPath].mtime, size |-> disk[fsPath].size]
             IN /\ [mtimeMs |-> entry.mtimeMs, size |-> entry.size] = hist.stated[fsPath]
                /\ entry.summary.content = now
                /\ now # hist.stated[fsPath] => ~reusable(r'.nextEntries, key, now)
     /\ (pc = "stat" /\ RefreshStep /\ ~passDone(r.i, r.files) /\ Present(r.files[r.i]))
          => LET fsPath == r.files[r.i]
                 key == normalizeCacheKey(fsPath)
                 now == [mtimeMs |-> disk[fsPath].mtime, size |-> disk[fsPath].size]
             IN (/\ key \in DOMAIN r.cachedEntries
                 /\ [mtimeMs |-> r.cachedEntries[key].mtimeMs,
                     size |-> r.cachedEntries[key].size] # now)
                  => /\ pc' = "xstat"
                     /\ r'.summaries = r.summaries
                     /\ fsPath \in hist'.invoked]_vars

\* a summary was stored whose file changed between the stat of refresh and
\* the read of its content
C37_Witness ==
  /\ pc = "stat"
  /\ \E k \in DOMAIN r.nextEntries :
       /\ k \in DOMAIN hist.computed
       /\ r.nextEntries[k].summary.content
            # [mtimeMs |-> r.nextEntries[k].mtimeMs, size |-> r.nextEntries[k].size]

(***************************************************************************)
(* Two overlapping calls of refresh.                                       *)
(***************************************************************************)
\* the summaries and the entries in the locals of one call belong together:
\* one entry per summary, stored under the summary's cache key
OwnPass(loc) ==
  /\ Len(loc.summaries) = Cardinality(DOMAIN loc.nextEntries)
  /\ \A n \in 1..Len(loc.summaries) :
       /\ loc.summaries[n].cacheKey \in DOMAIN loc.nextEntries
       /\ loc.nextEntries[loc.summaries[n].cacheKey].summary = loc.summaries[n]

\* C38: with two calls of refresh interleaved at their awaits, a step of one
\* call leaves the locals of the other call alone; the index changes only
\* when a call has gone through all its files, and becomes the index of the
\* summaries of that call alone; the cache file changes only by the write of
\* a call, to the document of that call's entries; so when both calls have
\* finished, the index is the one of the call that left its loop last.
C38_CallsKeepTheirOwnPass ==
  [][/\ parked' # parked
          => (r' = parked.r /\ pc' = parked.pc /\ parked'.r = r /\ parked'.pc = pc)
     /\ index' # index
          => /\ pc = "stat" /\ passDone(r.i, r.files)
             /\ parked' = parked
             /\ OwnPass(r)
             /\ \A i \in 1..Len(r.files) :
                  Present(r.files[i]) => normalizeCacheKey(r.files[i]) \in DOMAIN r.nextEntries
             /\ index' = buildIndex(r.sessionsRoot, sortSummaries(r.summaries))
     /\ cacheFile' # cacheFile
          => /\ pc = "write"
             /\ OwnPass(r)
             /\ r.nextCache.value.entries = r.nextEntries
             /\ cacheFile' \in {Json(r.nextCache.value), Corrupt}
     /\ (/\ pc' = "idle" /\ parked'.pc = "idle"
         /\ ~r'.nextCache.isNull /\ ~parked'.r.nextCache.isNull)
          => index'.sessions \in {sortSummaries(r'.summaries),
                                  sortSummaries(parked'.r.summaries)}]_vars

\* both calls have finished, they summarized different states of a file, and
\* the index is that of the call that left its loop last, which is not the
\* call that wrote the cache file last
C38_Witness ==
  /\ pc = "idle" /\ parked.pc = "idle"
  /\ ~r.nextCache.isNull /\ ~parked.r.nextCache.isNull
  /\ r.summaries # parked.r.summaries
  /\ index.sessions = sortSummaries(parked.r.summaries)
  /\ cacheFile = Json(r.nextCache.value)

(***************************************************************************)
(* The preview panel and the session it shows.                             *)
(***************************************************************************)
\* C39: no sessionData message is posted to the panel before its webview
\* has reported ready; and when the webview is ready and no build is under
\* way, the last sessionData message posted carries the model and the
\* reveal index of the state of the panel, the session opened last.
C39_LastPostIsCurrentSession ==
  /\ ~chat.postedUnready
  /\ (chat.ready /\ chat.building = {} /\ ~chat.posted.isNull)
       => /\ chat.posted.value.model.fsPath = chat.state.value.fsPath
          /\ chat.posted.value.revealMessageIndex = chat.state.value.revealMessageIndex
====
